---- MODULE Spec2Model ----
(***************************************************************************)
(* A model of the fi session server (src/listen.rs, src/listen/server.rs), *)
(* of the session client (src/call.rs, src/main.rs) and of the lazy cache  *)
(* of the object view (src/explorer.rs).                                   *)
(*                                                                         *)
(* Spec      : the listen command, the per-connection tasks and the peers  *)
(*             that connect to the socket (protocol peers and the client   *)
(*             of src/call.rs).                                            *)
(* SpecCache : tasks calling the accessors of Cache concurrently;          *)
(*             SpecData is Cache::data alone, under a fair runtime.        *)
(* SpecWire  : frames, the socket path of listen, the discovery of call.   *)
(* SpecQuery : the search and show commands on one object.                 *)
(* SpecDetail: the resolver of addresses, the operands of instructions,    *)
(*             the symbol search in detail, the raw dump.                  *)
(***************************************************************************)
EXTENDS Integers, Sequences, FiniteSets, TLC

VARIABLES
    srv,        \* phase of listen::Command::exec
    sockfile,   \* TRUE while the socket file exists on disk
    conns,      \* per peer slot: the server's connection task (server.rs exec)
    peers,      \* per peer slot: the process at the other end of the socket
    tasks,      \* cache tasks: position inside an accessor of Cache
    cells,      \* the three OnceCell of Cache: value, semaphore, constructor runs
    dcache,     \* DataCache: map, data list, the two RwLock, decompression counts
    seen,       \* what the accessors have returned so far (history)
    calc        \* one run of a function of the program: its input, position, result

\* svars: what a step of the cache leaves alone; cvars: what a step of the
\* session leaves alone.
svars == <<srv, sockfile, conns, peers, calc>>
cvars == <<tasks, cells, dcache, seen, calc>>
vars == <<srv, sockfile, conns, peers, tasks, cells, dcache, seen, calc>>

-----------------------------------------------------------------------------
(* Bounds *)

MaxStdin == 1       \* chunks on the stdin of a call.rs client
NTasks == 2         \* concurrent cache tasks
MaxCalls == 3       \* accessor calls of all cache tasks together

(* Program constants *)

U8Max == 255        \* u8::MAX, the threshold of YieldPoint

\* Two peer slots: a connection and a second one beside it. Each slot
\* connects at most once.
Conn == {1, 2}

-----------------------------------------------------------------------------
(* Commands and wire items *)

\* The loops of the commands and whether they call YieldPoint::yield_now.
Kinds == {"by_symbol", "by_data", "by_call", "show_text", "show_data", "dump"}

YieldingKind(kind) == kind \in {"by_symbol", "by_data", "show_data", "dump"}

\* Loop lengths: one below and one above the yield threshold.
Sizes == {2, U8Max + 2}

NoCmd == [kind |-> "none", n |-> 0]
AllCommands == [kind : Kinds, n : Sizes]

\* The commands the peers of the model send: a short loop, a loop that
\* reaches the yield threshold, and a loop that never calls yield_now.
Commands ==
    { [kind |-> "by_symbol", n |-> 2],
      [kind |-> "dump", n |-> U8Max + 2],
      [kind |-> "by_call", n |-> U8Max + 2] }

\* cbor4ii encodes a struct as a map keyed by field name.
EncodeStart(cmd) == [keys |-> {"options", "colored", "hyperlink"}, cmd |-> cmd]
EncodeOptions(cmd) == [keys |-> {"command"}, cmd |-> cmd]
Garbage == [keys |-> {}, cmd |-> NoCmd]

\* from_slice::<Start>: every field of Start must be present.
DecodeStart(payload) ==
    IF {"options", "colored", "hyperlink"} \subseteq payload.keys
        /\ payload.cmd \in AllCommands
    THEN [ok |-> TRUE, cmd |-> payload.cmd]
    ELSE [ok |-> FALSE, cmd |-> NoCmd]

\* What travels client -> server: a whole frame, a frame cut short, one
\* descriptor as ancillary data, or plain bytes.
FrameItem(payload) == [t |-> "frame", payload |-> payload, fd |-> "-"]
ShortItem == [t |-> "short", payload |-> Garbage, fd |-> "-"]
FdItem(fd) == [t |-> "fd", payload |-> Garbage, fd |-> fd]
DataItem == [t |-> "data", payload |-> Garbage, fd |-> "-"]

\* The peer of the per-connection protocol: Start, then stdin, stdout, stderr.
ProtoScript(cmd) ==
    <<FrameItem(EncodeStart(cmd)), FdItem("in"), FdItem("out"), FdItem("err")>>

\* The commands given to the client of call.rs.
ClientCommands == {[kind |-> "by_symbol", n |-> 2], [kind |-> "by_call", n |-> U8Max + 2]}

\* Peers that break the protocol.
BadScripts ==
    { <<>>,
      <<ShortItem>>,
      <<FrameItem(Garbage)>>,
      <<FrameItem(EncodeStart([kind |-> "by_symbol", n |-> 2])), FdItem("in")>>,
      <<FrameItem(EncodeStart([kind |-> "by_symbol", n |-> 2])), FdItem("in"),
        DataItem>> }

-----------------------------------------------------------------------------
(* YieldPoint *)

\* YieldPoint::yield_now: yields when the counter is u8::MAX, else counts.
YieldNow(p) ==
    IF p = U8Max THEN [point |-> 0, yield |-> TRUE]
    ELSE [point |-> p + 1, yield |-> FALSE]

\* One poll of a command loop that calls yield_now once per iteration, with
\* `left` iterations to go (mid: the poll resumes inside the yield_now of the
\* current iteration, which then completes without another call). The calls
\* count up to u8::MAX without suspending; the next call resets the counter
\* and suspends.
RunLoop(left, p, mid) ==
    LET todo == IF mid /\ left > 0 THEN left - 1 ELSE left
        quiet == U8Max - p
    IN  IF todo <= quiet
        THEN [left |-> 0, point |-> p + todo, mid |-> FALSE, pending |-> FALSE]
        ELSE [left |-> todo - quiet, point |-> YieldNow(p + quiet).point,
              mid |-> YieldNow(p + quiet).yield, pending |-> YieldNow(p + quiet).yield]

\* One poll of a command: the loops without yield_now run to their end.
PollCommand(kind, left, p, mid) ==
    IF YieldingKind(kind) THEN RunLoop(left, p, mid)
    ELSE [left |-> 0, point |-> p, mid |-> FALSE, pending |-> FALSE]

-----------------------------------------------------------------------------
(* The listen command: listen.rs Command::exec, server.rs Server::new/listen *)

SetupStages == {"mkdir", "open", "mmap", "parse", "runtime", "bind"}

\* scopeguard::defer! { fs::remove_file(&ipc_path) }: runs on every way out of
\* the block, whatever the result.
DeferRemoveOkOnly(exists, how) == IF how = "ok" THEN FALSE ELSE exists
DeferRemove(exists, how) == FALSE

\* A connection task that ends: its stream is dropped.
Ended(pc) == pc \in {"done", "failed", "cancelled", "dropped"}

\* The runtime is dropped when block_on returns: every task still alive is
\* dropped with all it holds (stream, Stdio, the command future).
DroppedConn ==
    [pc |-> "dropped", inbox |-> <<>>, fds |-> <<>>, cmd |-> NoCmd,
     left |-> 0, point |-> 0, mid |-> FALSE, res |-> "none", code |-> "none",
     out |-> <<>>, errmsg |-> FALSE, ev |-> <<>>,
     closedInCmd |-> FALSE, afterFail |-> FALSE]

DropTasks(cs) ==
    [c \in Conn |->
        IF cs[c].pc = "free" \/ Ended(cs[c].pc) THEN cs[c] ELSE DroppedConn]

\* The peers of the dropped tasks: what a protocol peer had left to send can
\* no longer be sent.
DropPeers(cs, ps) ==
    [c \in Conn |->
        IF cs[c].pc = "free" \/ Ended(cs[c].pc) \/ ps[c].kind = "call" THEN ps[c]
        ELSE [ps[c] EXCEPT !.todo = <<>>, !.open = FALSE]]

\* create_dir_all, File::open, map_copy_read_only, File::parse, the runtime
\* builder or UnixListener::bind fails: exec returns the error.
SetupFail(stage) ==
    /\ srv = "init"
    /\ stage \in SetupStages
    /\ srv' = "exit_err"
    /\ UNCHANGED <<sockfile, conns, peers>>
    /\ UNCHANGED cvars

\* Server::new binds the socket; the guard is installed and listen() awaits accept.
ServerNew ==
    /\ srv = "init"
    /\ srv' = "listening"
    /\ sockfile' = TRUE
    /\ UNCHANGED <<conns, peers>>
    /\ UNCHANGED cvars

\* ctrl_c() completes (Ok or Err): the block is left and the guard runs.
CtrlC(how) ==
    /\ srv = "listening"
    /\ how \in {"ok", "err"}
    /\ srv' = IF how = "ok" THEN "exit_ok" ELSE "exit_err"
    /\ sockfile' = DeferRemove(sockfile, how)
    /\ conns' = DropTasks(conns)
    /\ peers' = DropPeers(conns, peers)
    /\ UNCHANGED cvars

\* listener.accept() fails: listen() returns the error, `ret?` leaves the block.
AcceptError ==
    /\ srv = "listening"
    /\ srv' = "exit_err"
    /\ sockfile' = DeferRemove(sockfile, "err")
    /\ conns' = DropTasks(conns)
    /\ peers' = DropPeers(conns, peers)
    /\ UNCHANGED cvars

-----------------------------------------------------------------------------
(* Peers: the processes that connect to the socket *)

FreeConn ==
    [pc |-> "free", inbox |-> <<>>, fds |-> <<>>, cmd |-> NoCmd,
     left |-> 0, point |-> 0, mid |-> FALSE, res |-> "none", code |-> "none",
     out |-> <<>>, errmsg |-> FALSE, ev |-> <<>>,
     closedInCmd |-> FALSE, afterFail |-> FALSE]

NoPeer ==
    [kind |-> "none", todo |-> <<>>, open |-> FALSE, cmd |-> NoCmd,
     cpc |-> "-", stdin |-> 0, status |-> "none", sent |-> <<>>, relayed |-> 0]

\* Slots are taken in order (they are interchangeable).
NextSlot(c) == /\ peers[c].kind = "none"
               /\ \A d \in Conn : d < c => peers[d].kind # "none"

\* The command has been polled and has not returned.
InCommand(cn) ==
    /\ cn.pc \in {"select", "cmd"}
    /\ cn.ev # <<>>
    /\ cn.ev[Len(cn.ev)] = "cmd"

\* The peer's end of the socket is closed.
ClosePeer(c) ==
    /\ peers' = [peers EXCEPT ![c].open = FALSE]
    /\ conns' = [conns EXCEPT ![c].closedInCmd = @ \/ InCommand(conns[c])]

\* listener.accept() returns a stream and the task is spawned
\* (the peer has connected and will send `script`).
Accept(c, kind, script) ==
    /\ srv = "listening"
    /\ NextSlot(c)
    /\ conns[c].pc = "free"
    /\ conns' = [conns EXCEPT ![c] =
                    [FreeConn EXCEPT !.pc = "read_start",
                                     !.afterFail = \E d \in Conn : conns[d].pc = "failed"]]
    /\ peers' = [peers EXCEPT ![c] =
                    [NoPeer EXCEPT !.kind = kind, !.todo = script, !.open = TRUE]]
    /\ UNCHANGED <<srv, sockfile>>
    /\ UNCHANGED cvars

\* The peer writes the next item of its script to the socket.
PeerSend(c) ==
    /\ peers[c].kind \in {"proto", "bad"}
    /\ peers[c].open
    /\ peers[c].todo # <<>>
    /\ ~Ended(conns[c].pc)
    /\ peers' = [peers EXCEPT ![c].todo = Tail(@)]
    /\ conns' = [conns EXCEPT ![c].inbox = Append(@, Head(peers[c].todo))]
    /\ UNCHANGED <<srv, sockfile>>
    /\ UNCHANGED cvars

\* The peer closes its end of the socket (at any time).
PeerClose(c) ==
    /\ peers[c].kind \in {"proto", "bad"}
    /\ peers[c].open
    /\ ~Ended(conns[c].pc)
    /\ ClosePeer(c)
    /\ UNCHANGED <<srv, sockfile>>
    /\ UNCHANGED cvars

-----------------------------------------------------------------------------
(* The connection task: server.rs exec, spawned by Server::listen *)

\* Server::listen: the spawned task prints the error; the accept loop goes on.
TaskErrorStopsListener(s) == "exit_err"
TaskError(s) == s

\* exec returns Err: the task ends, the stream is dropped.
Fail(c) ==
    /\ conns' = [conns EXCEPT ![c].pc = "failed"]
    /\ srv' = TaskError(srv)

\* The descriptors are received one by one until all of Stdio can be filled.
FdsCompleteEarly(fds) == Len(fds) >= 2
FdsComplete(fds) == Len(fds) = 3

\* The n-th recv_fd fills this field of Stdio.
RoleOf(n) == <<"stdin", "stdout", "stderr">>[n]

\* Stdio { stdin, stdout, stderr }: File::from_raw_fd of the three received.
WrapStdio(fds) == [stdin |-> fds[1], stdout |-> fds[2], stderr |-> fds[3]]

\* The received descriptors still open in the process. recv_fd returns a
\* RawFd, which nothing owns; the three become Files together, when Stdio is
\* built after the third, and the Files close when the task ends and drops
\* Stdio.
OpenFds(cn) ==
    IF FdsComplete(cn.fds) /\ Ended(cn.pc) THEN {}
    ELSE { cn.fds[i] : i \in 1..Len(cn.fds) }

\* read_u16_le, read_exact, from_slice::<Start>, peer_cred.
ReadStart(c, credOk) ==
    /\ conns[c].pc = "read_start"
    /\ LET cn == conns[c] IN
       IF cn.inbox = <<>> \/ Head(cn.inbox).t = "short"
       THEN \* the stream ends inside the frame: UnexpectedEof
            /\ ~peers[c].open
            /\ credOk
            /\ Fail(c)
       ELSE LET d == DecodeStart(Head(cn.inbox).payload) IN
            IF Head(cn.inbox).t = "frame" /\ d.ok /\ credOk
            THEN /\ conns' = [conns EXCEPT ![c].pc = "recv_fd",
                                           ![c].inbox = Tail(@),
                                           ![c].cmd = d.cmd,
                                           ![c].left = d.cmd.n,
                                           ![c].ev = Append(@, "start")]
                 /\ srv' = srv
            ELSE Fail(c)
    /\ UNCHANGED <<sockfile, peers>>
    /\ UNCHANGED cvars

\* recv_fd: one descriptor from the ancillary data of the next message.
RecvFd(c) ==
    /\ conns[c].pc = "recv_fd"
    /\ LET cn == conns[c] IN
       IF cn.inbox = <<>>
       THEN /\ ~peers[c].open
            /\ Fail(c)
       ELSE IF Head(cn.inbox).t = "fd"
            THEN LET fds == Append(cn.fds, Head(cn.inbox).fd) IN
                 /\ conns' = [conns EXCEPT
                        ![c].fds = fds,
                        ![c].inbox = Tail(@),
                        ![c].ev = Append(@, RoleOf(Len(fds))),
                        ![c].pc = IF FdsComplete(fds) THEN "select" ELSE "recv_fd"]
                 /\ srv' = srv
            ELSE Fail(c)
    /\ UNCHANGED <<sockfile, peers>>
    /\ UNCHANGED cvars

\* select!: the command branch is polled (first, or after a pending copy).
SelectCommand(c) ==
    /\ conns[c].pc = "select"
    /\ conns' = [conns EXCEPT
            ![c].pc = "cmd",
            ![c].ev = IF conns[c].ev[Len(conns[c].ev)] = "cmd" THEN @ ELSE Append(@, "cmd")]
    /\ UNCHANGED <<srv, sockfile, peers>>
    /\ UNCHANGED cvars

\* select!: the copy branch is polled first and reads end of file:
\* "command cancel", return Ok(()).
SelectCopy(c) ==
    /\ conns[c].pc = "select"
    /\ ~peers[c].open
    /\ conns' = [conns EXCEPT ![c].pc = "cancelled", ![c].inbox = <<>>]
    /\ UNCHANGED <<srv, sockfile, peers>>
    /\ UNCHANGED cvars

\* One poll of command.exec: it returns an error, returns Ok, or suspends in
\* yield_now, and then the copy branch is polled in the same poll of select!.
CmdRun(c, result) ==
    /\ conns[c].pc = "cmd"
    /\ result \in {"run", "err"}
    /\ \E r \in {IF result = "err" THEN RunLoop(0, 0, FALSE)
                  ELSE PollCommand(conns[c].cmd.kind, conns[c].left,
                                   conns[c].point, conns[c].mid)} :
       conns' =
         IF result = "err"
         THEN [conns EXCEPT ![c].pc = "report", ![c].res = "err",
                            ![c].ev = Append(@, "end")]
         ELSE IF r.pending
         THEN [conns EXCEPT ![c].pc = IF peers[c].open THEN "select" ELSE "cancelled",
                            ![c].left = r.left, ![c].point = r.point, ![c].mid = r.mid]
         ELSE [conns EXCEPT ![c].pc = "send_exit", ![c].res = "ok", ![c].code = "Ok",
                            ![c].left = r.left, ![c].point = r.point, ![c].mid = r.mid,
                            ![c].ev = Append(@, "end")]
    /\ UNCHANGED <<srv, sockfile, peers>>
    /\ UNCHANGED cvars

\* writeln!(stdio.stderr, "exec failed: ..")?  then ExitCode::Failure.
Report(c, ok) ==
    /\ conns[c].pc = "report"
    /\ IF ok
       THEN /\ conns' = [conns EXCEPT ![c].pc = "send_exit", ![c].errmsg = TRUE,
                                      ![c].code = "Failure"]
            /\ srv' = srv
       ELSE Fail(c)
    /\ UNCHANGED <<sockfile, peers>>
    /\ UNCHANGED cvars

\* The Exit frame: write_all of the length and the payload, flush, Ok(()).
SendExit(c) ==
    /\ conns[c].pc = "send_exit"
    /\ IF peers[c].open
       THEN /\ conns' = [conns EXCEPT ![c].pc = "done",
                                      ![c].out = Append(@, conns[c].code),
                                      ![c].ev = Append(@, "exit")]
            /\ srv' = srv
       ELSE Fail(c)
    /\ UNCHANGED <<sockfile, peers>>
    /\ UNCHANGED cvars

-----------------------------------------------------------------------------
(* The client: call.rs call/exec, run by main.rs main *)

\* main returns the Result of call::call: Ok is status 0, Err is status 1.
ExitStatus(result) == IF result = "Ok" THEN 0 ELSE 1

ClientExit(c, result) ==
    [peers EXCEPT ![c].cpc = "exit", ![c].open = FALSE,
                  ![c].status = ExitStatus(result)]

\* UnixStream::connect: fails when nothing listens on the path.
ClientConnect(c, cmd, nstdin) ==
    /\ NextSlot(c)
    /\ conns[c].pc = "free"
    /\ cmd \in Commands
    /\ nstdin \in 0..MaxStdin
    /\ IF srv = "listening"
       THEN /\ conns' = [conns EXCEPT ![c] =
                    [FreeConn EXCEPT !.pc = "read_start",
                                     !.afterFail = \E d \in Conn : conns[d].pc = "failed"]]
            /\ peers' = [peers EXCEPT ![c] =
                    [NoPeer EXCEPT !.kind = "call", !.open = TRUE, !.cmd = cmd,
                                   !.cpc = "send", !.stdin = nstdin]]
       ELSE /\ peers' = [peers EXCEPT ![c] =
                    [NoPeer EXCEPT !.kind = "call", !.cmd = cmd, !.cpc = "exit",
                                   !.status = ExitStatus("Err")]]
            /\ UNCHANGED conns
    /\ UNCHANGED <<srv, sockfile>>
    /\ UNCHANGED cvars

\* to_vec(options), the u16 length, write_all, flush: the frame holds Options.
ClientSendFrame(c) ==
    /\ peers[c].kind = "call"
    /\ peers[c].cpc = "send"
    /\ IF Ended(conns[c].pc)
       THEN /\ peers' = ClientExit(c, "Err")
            /\ UNCHANGED conns
       ELSE /\ peers' = [peers EXCEPT
                    ![c].cpc = "select",
                    ![c].sent = Append(@, FrameItem(EncodeOptions(peers[c].cmd)))]
            /\ conns' = [conns EXCEPT
                    ![c].inbox = Append(@, FrameItem(EncodeOptions(peers[c].cmd)))]
    /\ UNCHANGED <<srv, sockfile>>
    /\ UNCHANGED cvars

\* select!, copy(stdin -> writer): one chunk of stdin is written to the socket.
ClientStdin(c) ==
    /\ peers[c].kind = "call"
    /\ peers[c].cpc = "select"
    /\ peers[c].stdin > 0
    /\ IF Ended(conns[c].pc)
       THEN /\ peers' = ClientExit(c, "Err")
            /\ UNCHANGED conns
       ELSE /\ peers' = [peers EXCEPT ![c].stdin = @ - 1, ![c].sent = Append(@, DataItem)]
            /\ conns' = [conns EXCEPT ![c].inbox = Append(@, DataItem)]
    /\ UNCHANGED <<srv, sockfile>>
    /\ UNCHANGED cvars

\* select!, copy(stdin -> writer) reads end of file: the select! is over and
\* the last copy(reader -> stdout) begins.
ClientStdinEof(c) ==
    /\ peers[c].kind = "call"
    /\ peers[c].cpc = "select"
    /\ peers[c].stdin = 0
    /\ peers' = [peers EXCEPT ![c].cpc = "drain"]
    /\ UNCHANGED <<srv, sockfile, conns>>
    /\ UNCHANGED cvars

\* copy(reader -> stdout): what the server wrote goes to stdout as it is; at
\* end of file the copy returns (an error when stdout cannot be written), the
\* last copy returns at once, exec returns and the process exits.
ClientReaderEof(c, stdoutOk) ==
    /\ peers[c].kind = "call"
    /\ peers[c].cpc \in {"select", "drain"}
    /\ Ended(conns[c].pc)
    /\ peers' = [ClientExit(c, IF stdoutOk THEN "Ok" ELSE "Err")
                    EXCEPT ![c].relayed = Len(conns[c].out)]
    /\ UNCHANGED <<srv, sockfile, conns>>
    /\ UNCHANGED cvars

-----------------------------------------------------------------------------
(* The cache of the object view: explorer.rs Cache, DataCache *)

Task == 1..NTasks

\* Cache { addr2sym, symlist, dyn_rela }: the OnceCell built from the object.
Cells == {"addr2sym", "symlist", "dyn_rela"}

\* Section indices; section_by_index or uncompressed_data fails for the last.
Sections == {1, 2, 3}
SectionOk(s) == s \in {1, 2}

\* A task outside any accessor.
IdleTask == [pc |-> "idle", cell |-> "-", sec |-> 0, tmp |-> 0]

\* OnceCell::get_or_init takes the one permit of the cell before it runs the
\* constructor (sem: 0 free, a task id while held, -1 closed: the value is set).
PermitIgnored(sem) == sem # -1
PermitFree(sem) == sem = 0

\* RwLock: read() needs no writer, write() needs no reader and no writer.
CanRead(w) == w = 0
CanWrite(r, w) == r = {} /\ w = 0

\* A double check that finds no entry whatever the map holds.
NeedInsertAlways(map, s) == TRUE

\* The double check under the write lock: map.get(&idx).is_none().
NeedInsert(map, s) == map[s] = 0

ReturnOnce(k, v) == seen' = [seen EXCEPT !.once[k] = @ \cup {v}]
ReturnData(s, buf) == seen' = [seen EXCEPT !.data[s] = @ \cup {buf.inst}]

\* addr2sym / symlist / dyn_rela: get_or_init returns the value when set.
OnceCall(t, k) ==
    /\ tasks[t].pc = "idle"
    /\ seen.calls < MaxCalls
    /\ IF cells[k].val # 0
       THEN /\ tasks' = [tasks EXCEPT ![t] = IdleTask]
            /\ seen' = [seen EXCEPT !.once[k] = @ \cup {cells[k].val},
                                    !.calls = @ + 1]
            /\ UNCHANGED cells
       ELSE /\ tasks' = [tasks EXCEPT ![t].pc = "acquire", ![t].cell = k]
            /\ cells' = [cells EXCEPT ![k].raced = @ \/
                            \E u \in Task \ {t} :
                                tasks[u].cell = k /\ tasks[u].pc \in {"acquire", "init"}]
            /\ seen' = [seen EXCEPT !.calls = @ + 1]
    /\ UNCHANGED dcache
    /\ UNCHANGED svars

\* get_or_init: semaphore.acquire().await; a closed semaphore means the value
\* was set meanwhile.
OnceAcquire(t) ==
    /\ tasks[t].pc = "acquire"
    /\ LET k == tasks[t].cell IN
       IF cells[k].sem = -1
       THEN /\ tasks' = [tasks EXCEPT ![t] = IdleTask]
            /\ ReturnOnce(k, cells[k].val)
            /\ UNCHANGED cells
       ELSE /\ PermitFree(cells[k].sem)
            /\ tasks' = [tasks EXCEPT ![t].pc = "init"]
            /\ cells' = [cells EXCEPT ![k].sem = t]
            /\ UNCHANGED seen
    /\ UNCHANGED dcache
    /\ UNCHANGED svars

\* get_or_init: the constructor runs (it does not suspend), set_value stores
\* the value and closes the semaphore, the reference is returned.
OnceInit(t) ==
    /\ tasks[t].pc = "init"
    /\ LET k == tasks[t].cell
           v == cells[k].built + 1 IN
       /\ cells' = [cells EXCEPT ![k].built = v, ![k].val = v, ![k].sem = -1]
       /\ ReturnOnce(k, v)
    /\ tasks' = [tasks EXCEPT ![t] = IdleTask]
    /\ UNCHANGED dcache
    /\ UNCHANGED svars

\* Cache::data is called for section s.
DataCall(t, s) ==
    /\ tasks[t].pc = "idle"
    /\ seen.calls < MaxCalls
    /\ tasks' = [tasks EXCEPT ![t].pc = "fast_map", ![t].sec = s]
    /\ seen' = [seen EXCEPT !.calls = @ + 1]
    /\ UNCHANGED <<cells, dcache>>
    /\ UNCHANGED svars

\* fast check: map.read().await
FastLockMap(t) ==
    /\ tasks[t].pc = "fast_map"
    /\ CanRead(dcache.mapW)
    /\ dcache' = [dcache EXCEPT !.mapR = @ \cup {t}]
    /\ tasks' = [tasks EXCEPT ![t].pc = "fast_chk"]
    /\ UNCHANGED <<cells, seen>>
    /\ UNCHANGED svars

\* A fast check that keeps the read guard of the map after a miss.
FastCheckKeepsGuard(t) ==
    /\ tasks[t].pc = "fast_chk"
    /\ IF dcache.map[tasks[t].sec] # 0
       THEN tasks' = [tasks EXCEPT ![t].pc = "fast_data",
                                   ![t].tmp = dcache.map[tasks[t].sec]]
       ELSE tasks' = [tasks EXCEPT ![t].pc = "ins_map"]
    /\ UNCHANGED <<cells, dcache, seen>>
    /\ UNCHANGED svars

\* fast check: map.get(&idx); a miss leaves the block and drops the guard.
FastCheck(t) ==
    /\ tasks[t].pc = "fast_chk"
    /\ IF dcache.map[tasks[t].sec] # 0
       THEN /\ tasks' = [tasks EXCEPT ![t].pc = "fast_data",
                                      ![t].tmp = dcache.map[tasks[t].sec]]
            /\ UNCHANGED dcache
       ELSE /\ tasks' = [tasks EXCEPT ![t].pc = "ins_map"]
            /\ dcache' = [dcache EXCEPT !.mapR = @ \ {t}]
    /\ UNCHANGED <<cells, seen>>
    /\ UNCHANGED svars

\* fast check: data.read().await with the map guard held.
FastLockData(t) ==
    /\ tasks[t].pc = "fast_data"
    /\ CanRead(dcache.dataW)
    /\ dcache' = [dcache EXCEPT !.dataR = @ \cup {t}]
    /\ tasks' = [tasks EXCEPT ![t].pc = "fast_read"]
    /\ UNCHANGED <<cells, seen>>
    /\ UNCHANGED svars

\* fast check: return Ok(list[id].clone()); both guards are dropped.
FastRead(t) ==
    /\ tasks[t].pc = "fast_read"
    /\ ReturnData(tasks[t].sec, dcache.list[tasks[t].tmp])
    /\ dcache' = [dcache EXCEPT !.dataR = @ \ {t}, !.mapR = @ \ {t}]
    /\ tasks' = [tasks EXCEPT ![t] = IdleTask]
    /\ UNCHANGED cells
    /\ UNCHANGED svars

\* insert: map.write().await
InsLockMap(t) ==
    /\ tasks[t].pc = "ins_map"
    /\ CanWrite(dcache.mapR, dcache.mapW)
    /\ dcache' = [dcache EXCEPT !.mapW = t]
    /\ tasks' = [tasks EXCEPT ![t].pc = "ins_chk"]
    /\ UNCHANGED <<cells, seen>>
    /\ UNCHANGED svars

\* insert: the double check; section_by_index(idx)?, uncompressed_data()?
InsCheck(t) ==
    /\ tasks[t].pc = "ins_chk"
    /\ LET s == tasks[t].sec IN
       IF NeedInsert(dcache.map, s)
       THEN IF SectionOk(s)
            THEN /\ dcache' = [dcache EXCEPT !.reads[s] = @ + 1, !.allocs = @ + 1]
                 /\ tasks' = [tasks EXCEPT ![t].pc = "ins_data",
                                           ![t].tmp = dcache.allocs + 1]
                 /\ UNCHANGED seen
            ELSE \* the error is returned, the guard is dropped
                 /\ dcache' = [dcache EXCEPT !.mapW = 0]
                 /\ tasks' = [tasks EXCEPT ![t] = IdleTask]
                 /\ seen' = [seen EXCEPT !.errs = @ \cup {s}]
       ELSE /\ dcache' = [dcache EXCEPT !.mapW = 0]
            /\ tasks' = [tasks EXCEPT ![t].pc = "re_map"]
            /\ UNCHANGED seen
    /\ UNCHANGED cells
    /\ UNCHANGED svars

\* insert: data.write().await with the map guard held.
InsLockData(t) ==
    /\ tasks[t].pc = "ins_data"
    /\ CanWrite(dcache.dataR, dcache.dataW)
    /\ dcache' = [dcache EXCEPT !.dataW = t]
    /\ tasks' = [tasks EXCEPT ![t].pc = "ins_push"]
    /\ UNCHANGED <<cells, seen>>
    /\ UNCHANGED svars

\* insert: id = list.len(); list.push(Arc::new(data)); map.insert(idx, id);
\* both guards are dropped at the end of the block.
InsPush(t) ==
    /\ tasks[t].pc = "ins_push"
    /\ LET s == tasks[t].sec
           id == Len(dcache.list) + 1 IN
       /\ dcache' = [dcache EXCEPT
                !.list = Append(@, [sec |-> s, inst |-> tasks[t].tmp]),
                !.map[s] = id, !.dataW = 0, !.mapW = 0]
       /\ tasks' = [tasks EXCEPT ![t].pc = "fin_data", ![t].tmp = id]
    /\ UNCHANGED <<cells, seen>>
    /\ UNCHANGED svars

\* the entry was there at the double check: map.read().await, get, unwrap.
ReMap(t) ==
    /\ tasks[t].pc = "re_map"
    /\ CanRead(dcache.mapW)
    /\ tasks' = [tasks EXCEPT ![t].pc = "fin_data", ![t].tmp = dcache.map[tasks[t].sec]]
    /\ UNCHANGED <<cells, dcache, seen>>
    /\ UNCHANGED svars

\* data.read().await
FinLockData(t) ==
    /\ tasks[t].pc = "fin_data"
    /\ CanRead(dcache.dataW)
    /\ dcache' = [dcache EXCEPT !.dataR = @ \cup {t}]
    /\ tasks' = [tasks EXCEPT ![t].pc = "fin_read"]
    /\ UNCHANGED <<cells, seen>>
    /\ UNCHANGED svars

\* Ok(list[id].clone())
FinRead(t) ==
    /\ tasks[t].pc = "fin_read"
    /\ ReturnData(tasks[t].sec, dcache.list[tasks[t].tmp])
    /\ dcache' = [dcache EXCEPT !.dataR = @ \ {t}]
    /\ tasks' = [tasks EXCEPT ![t] = IdleTask]
    /\ UNCHANGED cells
    /\ UNCHANGED svars

\* The task is at an await of the accessor: the future returns Pending when
\* the lock or permit is taken, or when the task has used up its poll budget.
Suspended(t) ==
    tasks[t].pc \in {"acquire", "fast_map", "fast_data", "ins_map", "ins_data",
                     "re_map", "fin_data"}

\* server.rs exec, select!: the client disconnects while the command is
\* suspended; the command future is dropped with the guards and buffers it holds.
Cancel(t) ==
    /\ Suspended(t)
    /\ dcache' = [dcache EXCEPT !.mapR = @ \ {t},
                                !.mapW = IF @ = t THEN 0 ELSE @]
    /\ tasks' = [tasks EXCEPT ![t] = IdleTask]
    /\ UNCHANGED <<cells, seen>>
    /\ UNCHANGED svars

NextCache ==
    \/ \E t \in Task, k \in Cells : OnceCall(t, k)
    \/ \E t \in Task : OnceAcquire(t)
    \/ \E t \in Task : OnceInit(t)
    \/ \E t \in Task, s \in Sections : DataCall(t, s)
    \/ \E t \in Task : FastLockMap(t)
    \/ \E t \in Task : FastCheck(t)
    \/ \E t \in Task : FastLockData(t)
    \/ \E t \in Task : FastRead(t)
    \/ \E t \in Task : InsLockMap(t)
    \/ \E t \in Task : InsCheck(t)
    \/ \E t \in Task : InsLockData(t)
    \/ \E t \in Task : InsPush(t)
    \/ \E t \in Task : ReMap(t)
    \/ \E t \in Task : FinLockData(t)
    \/ \E t \in Task : FinRead(t)
    \/ \E t \in Task : Cancel(t)

-----------------------------------------------------------------------------
(* The specification of the session *)

InitSession ==
    /\ srv = "init"
    /\ sockfile = FALSE
    /\ conns = [c \in Conn |-> FreeConn]
    /\ peers = [c \in Conn |-> NoPeer]

InitCache ==
    /\ tasks = [t \in Task |-> IdleTask]
    /\ cells = [k \in Cells |-> [val |-> 0, sem |-> 0, built |-> 0, raced |-> FALSE]]
    /\ dcache = [map |-> [s \in Sections |-> 0], list |-> <<>>,
                 mapR |-> {}, mapW |-> 0, dataR |-> {}, dataW |-> 0,
                 reads |-> [s \in Sections |-> 0], allocs |-> 0]
    /\ seen = [once |-> [k \in Cells |-> {}], data |-> [s \in Sections |-> {}],
               errs |-> {}, calls |-> 0]

\* No function run is in progress.
NoCalc == [op |-> "none"]

Init == InitSession /\ InitCache /\ calc = NoCalc

Next ==
    \/ \E stage \in SetupStages : SetupFail(stage)
    \/ ServerNew
    \/ \E how \in {"ok", "err"} : CtrlC(how)
    \/ AcceptError
    \/ \E c \in Conn, cmd \in Commands : Accept(c, "proto", ProtoScript(cmd))
    \/ \E c \in Conn, script \in BadScripts : Accept(c, "bad", script)
    \/ \E c \in Conn : PeerSend(c)
    \/ \E c \in Conn : PeerClose(c)
    \/ \E c \in Conn, credOk \in BOOLEAN : ReadStart(c, credOk)
    \/ \E c \in Conn : RecvFd(c)
    \/ \E c \in Conn : SelectCommand(c)
    \/ \E c \in Conn : SelectCopy(c)
    \/ \E c \in Conn, result \in {"run", "err"} : CmdRun(c, result)
    \/ \E c \in Conn, ok \in BOOLEAN : Report(c, ok)
    \/ \E c \in Conn : SendExit(c)
    \/ \E c \in Conn, cmd \in ClientCommands, n \in 0..MaxStdin :
            ClientConnect(c, cmd, n)
    \/ \E c \in Conn : ClientSendFrame(c)
    \/ \E c \in Conn : ClientStdin(c)
    \/ \E c \in Conn : ClientStdinEof(c)
    \/ \E c \in Conn, ok \in BOOLEAN : ClientReaderEof(c, ok)

Spec == Init /\ [][Next]_vars

SpecCache == Init /\ [][NextCache]_vars

\* The awaits of the accessors: a lock or a permit is taken.
Acquire(t) ==
    \/ OnceAcquire(t)
    \/ FastLockMap(t)
    \/ FastLockData(t)
    \/ InsLockMap(t)
    \/ InsLockData(t)
    \/ ReMap(t)
    \/ FinLockData(t)

\* The code between two awaits: the runtime polls a task that was woken.
Proceed(t) ==
    \/ OnceInit(t)
    \/ FastCheck(t)
    \/ FastRead(t)
    \/ InsCheck(t)
    \/ InsPush(t)
    \/ FinRead(t)

\* Tasks calling Cache::data concurrently.
NextData ==
    \/ \E t \in Task, s \in Sections : DataCall(t, s)
    \/ \E t \in Task : FastLockMap(t)
    \/ \E t \in Task : FastCheck(t)
    \/ \E t \in Task : FastLockData(t)
    \/ \E t \in Task : FastRead(t)
    \/ \E t \in Task : InsLockMap(t)
    \/ \E t \in Task : InsCheck(t)
    \/ \E t \in Task : InsLockData(t)
    \/ \E t \in Task : InsPush(t)
    \/ \E t \in Task : ReMap(t)
    \/ \E t \in Task : FinLockData(t)
    \/ \E t \in Task : FinRead(t)
    \/ \E t \in Task : Cancel(t)

\* Cache::data under a runtime that polls every task that can go on: a task
\* whose next step stays possible takes it. New calls and cancellations may
\* or may not happen.
SpecData ==
    Init /\ [][NextData]_vars /\ \A t \in Task : WF_vars(Acquire(t) \/ Proceed(t))

-----------------------------------------------------------------------------
(* Frames: call.rs exec (the client writes), server.rs exec (reads, writes) *)

\* What a run of a function leaves alone.
mvars == <<srv, sockfile, conns, peers, tasks, cells, dcache, seen>>

U16Max == 65535     \* u16::MAX: the length prefix is a u16

\* Payload lengths around one byte, two bytes, and beyond the prefix.
FrameLens ==
    {0, 1, 255, 256, 257, U16Max - 1, U16Max, U16Max + 1, U16Max + 2,
     2 * U16Max + 1, 2 * U16Max + 2}

\* let len: u16 = buf.len().try_into()?
WrapIntoU16(n) == [ok |-> TRUE, val |-> n % (U16Max + 1)]
TryIntoU16(n) ==
    IF n <= U16Max THEN [ok |-> TRUE, val |-> n] ELSE [ok |-> FALSE, val |-> 0]

\* len.to_le_bytes() and read_u16_le()
ToLeBytes(v) == <<v % 256, v \div 256>>
ReadU16Le(bytes) == bytes[1] + 256 * bytes[2]

\* The payload: `n` bytes of the encoded value `tag`.
Payload(n, tag) == [len |-> n, tag |-> tag]
NoPayload == Payload(0, "-")

\* vec![0; len], read_exact(&mut buf): the next `len` bytes of the stream.
ReadExact(body, len) ==
    IF len <= body.len THEN [ok |-> TRUE, buf |-> Payload(len, body.tag)]
    ELSE [ok |-> FALSE, buf |-> NoPayload]

FrameInputs ==
    [op : {"frame"}, side : {"client", "server"}, n : FrameLens, tag : {"a", "b"},
     pc : {"encode"}, wire : {<<>>}, got : {NoPayload}, err : {"none"}]

\* to_vec, try_into, write_all(&len.to_le_bytes()), write_all(&buf), flush.
FrameSend ==
    /\ calc.op = "frame"
    /\ calc.pc = "encode"
    /\ LET len == TryIntoU16(calc.n) IN
       calc' = IF len.ok
               THEN [calc EXCEPT !.pc = "sent",
                        !.wire = <<ToLeBytes(len.val), Payload(calc.n, calc.tag)>>]
               ELSE [calc EXCEPT !.pc = "failed", !.err = "TooLong"]
    /\ UNCHANGED mvars

\* server.rs exec: read_u16_le, read_exact of the frame the client wrote.
FrameRecv ==
    /\ calc.op = "frame"
    /\ calc.pc = "sent"
    /\ calc.side = "client"
    /\ LET r == ReadExact(calc.wire[2], ReadU16Le(calc.wire[1])) IN
       calc' = IF r.ok
               THEN [calc EXCEPT !.pc = "received", !.got = r.buf]
               ELSE [calc EXCEPT !.pc = "failed", !.err = "UnexpectedEof"]
    /\ UNCHANGED mvars

-----------------------------------------------------------------------------
(* The socket path of listen: listen.rs Command::exec, util.rs hashpath, hashname *)

\* DefaultHasher: finish() is a u64; the model keeps the digest in two bytes.
HashMod == 65521
HashStart == 5381
HashWrite(h, x) == (h * 33 + x + 1) % HashMod

RECURSIVE HashBytes(_, _)
HashBytes(h, bytes) ==
    IF bytes = <<>> THEN h ELSE HashBytes(HashWrite(h, Head(bytes)), Tail(bytes))

\* HEXLOWER.encode(&out.to_le_bytes()): two digits per byte.
HexLower(out) ==
    LET b == ToLeBytes(out) IN <<b[1] \div 16, b[1] % 16, b[2] \div 16, b[2] % 16>>

\* hashpath: the digest of the path alone.
hashpath(path) == HexLower(HashBytes(HashStart, path))

\* hashname: the digest of the process id, the time, the length and the path.
hashname(pid, now, path) ==
    HexLower(HashBytes(
        HashWrite(HashWrite(HashWrite(HashStart, pid), now), Len(path)), path))

\* "/a", "/b", "/ab"
Paths == {<<47, 97>>, <<47, 98>>, <<47, 97, 98>>}
Pids == {100, 101}
Times == {1, 2}
Run == [pid : Pids, now : Times]

\* Two runs of listen from the same working directory on the same target.
ListenInputs ==
    [op : {"listen"}, cwd : {<<47, 97>>, <<47, 98>>}, target : Paths,
     runs : [1..2 -> Run], names : {<<>>}]

\* The file name as dash-separated parts: dir.join(hashname(&self.path)).
SocketName(pid, now, cwd, target) == <<hashname(pid, now, target)>>

ListenPath ==
    /\ calc.op = "listen"
    /\ Len(calc.names) < 2
    /\ LET run == calc.runs[Len(calc.names) + 1] IN
       calc' = [calc EXCEPT !.names =
                    Append(@, SocketName(run.pid, run.now, calc.cwd, calc.target))]
    /\ UNCHANGED mvars

-----------------------------------------------------------------------------
(* The discovery of the session socket: call.rs call *)

MaxEntries == 2     \* entries of the runtime directory

\* A file name: the hash it begins with and the rest of the name.
EntryName(prefix, rest) == <<prefix, rest>>
BeginsWith(name, prefix) == name[1] = prefix

\* Entries of the directory: sockets of this working directory and of another
\* one, a regular file, and an entry whose read or file_type fails.
DirEntries(cwd) ==
    [kind : {"socket"},
     name : {EntryName(h, r) : h \in {hashpath(cwd), hashpath(<<47, 122>>)}, r \in {1, 2}}]
    \cup {[kind |-> "file", name |-> EntryName(hashpath(cwd), 3)],
          [kind |-> "error", name |-> EntryName(hashpath(cwd), 4)]}

\* The listings read_dir can yield: no name twice, in any order.
Listings(cwd) ==
    { l \in UNION {[1..k -> DirEntries(cwd)] : k \in 0..MaxEntries} :
        \A i \in 1..Len(l), j \in 1..Len(l) : l[i].name = l[j].name => i = j }

\* The value of FI_SESSION when it is set.
SessionPath == EntryName(hashpath(<<47, 115>>), 0)
NoPath == <<>>

CallInputs ==
    [op : {"call"}, cwd : {<<47, 97>>}, env : {NoPath, SessionPath}, dirOk : {TRUE},
     dir : Listings(<<47, 97>>), pc : {"start"}, i : {0}, found : {NoPath},
     enumerated : {FALSE}, err : {"none"}]
    \cup
    [op : {"call"}, cwd : {<<47, 97>>}, env : {NoPath, SessionPath}, dirOk : {FALSE},
     dir : {<<>>}, pc : {"start"}, i : {0}, found : {NoPath},
     enumerated : {FALSE}, err : {"none"}]

\* env::var_os(SESSION_ENVNAME), else std::fs::read_dir(dir)?
CallStart ==
    /\ calc.op = "call"
    /\ calc.pc = "start"
    /\ calc' = IF calc.env # NoPath
               THEN [calc EXCEPT !.pc = "connect", !.found = calc.env]
               ELSE IF ~calc.dirOk
               THEN [calc EXCEPT !.pc = "failed", !.err = "read_dir"]
               ELSE [calc EXCEPT !.pc = "scan", !.enumerated = TRUE]
    /\ UNCHANGED mvars

\* One turn of the loop: entry?, file_type()?, is_socket => found = Some(path).
CallScanEntry ==
    /\ calc.op = "call"
    /\ calc.pc = "scan"
    /\ calc.i < Len(calc.dir)
    /\ LET entry == calc.dir[calc.i + 1] IN
       calc' = IF entry.kind = "error"
               THEN [calc EXCEPT !.pc = "failed", !.err = "entry"]
               ELSE [calc EXCEPT !.i = @ + 1,
                        !.found = IF entry.kind = "socket" THEN entry.name ELSE @]
    /\ UNCHANGED mvars

\* found.context("not found any ipc path")?
CallScanEnd ==
    /\ calc.op = "call"
    /\ calc.pc = "scan"
    /\ calc.i = Len(calc.dir)
    /\ calc' = IF calc.found = NoPath
               THEN [calc EXCEPT !.pc = "failed", !.err = "not found any ipc path"]
               ELSE [calc EXCEPT !.pc = "connect"]
    /\ UNCHANGED mvars

-----------------------------------------------------------------------------
(* The specification of frames, socket path and discovery *)

InitWire ==
    /\ InitSession
    /\ InitCache
    /\ calc \in FrameInputs \cup ListenInputs \cup CallInputs

NextWire ==
    \/ FrameSend
    \/ FrameRecv
    \/ ListenPath
    \/ CallStart
    \/ CallScanEntry
    \/ CallScanEnd

SpecWire == InitWire /\ [][NextWire]_vars

-----------------------------------------------------------------------------
(* Names and sorting: str::cmp, slice::sort_unstable_by *)

\* Names are strings over 'a', 'b' and '.', which is written Dot.
Dot == 0 - 1

\* The order of str: by the first character that differs, a prefix first.
RECURSIVE StrCmp(_, _)
StrCmp(a, b) ==
    IF a = <<>> THEN (IF b = <<>> THEN 0 ELSE 0 - 1)
    ELSE IF b = <<>> THEN 1
    ELSE IF Head(a) < Head(b) THEN 0 - 1
    ELSE IF Head(a) > Head(b) THEN 1
    ELSE StrCmp(Tail(a), Tail(b))

IntCmp(a, b) == IF a < b THEN 0 - 1 ELSE IF a > b THEN 1 ELSE 0

\* The results sort_unstable_by can leave: every arrangement of the elements
\* that is in order; elements that compare equal end in any order.
SortedBy(out, Cmp(_, _)) ==
    { [i \in 1..Len(out) |-> out[p[i]]] :
        p \in { q \in [1..Len(out) -> 1..Len(out)] :
                  /\ \A i, j \in 1..Len(out) : i # j => q[i] # q[j]
                  /\ \A i \in 1..(Len(out) - 1) :
                        Cmp(out[q[i]], out[q[i + 1]]) <= 0 } }

-----------------------------------------------------------------------------
(* The search command: search.rs Command::exec, by_call; disasm.rs *)

MaxInsts == 2       \* instructions in the body of a symbol

Archs == {"X86_64", "Aarch64", "Riscv64", "Wasm32", "Wasm64", "Arm", "I386"}

\* Disassembler::new: match obj.architecture()
DisassemblerNew(arch) ==
    IF arch \in {"X86_64", "Aarch64"} THEN arch
    ELSE IF arch \in {"Wasm32", "Wasm64"} THEN "Wasm"
    ELSE "UnsupportedArch"

\* show.rs build_disasm: match obj.architecture()
BuildDisasm(arch) ==
    IF arch \in {"X86_64", "Aarch64", "Riscv64"} THEN arch ELSE "UnsupportedArch"

\* The object: a text section with the symbols a and b (a is the symbol
\* searched for), .got with a slot that a relocation binds to a, and the
\* sections .bss and .tbss, which have no bytes in the file, with the
\* variables bssvar and tlsvar; `nowhere` is an address of no symbol and no
\* section.
Obj ==
    [a |-> 256, b |-> 320, got |-> 1024, nowhere |-> 2048,
     bssvar |-> 4096, tlsvar |-> 8192,
     sections |-> <<[address |-> 256, size |-> 512, align |-> 16, kind |-> "Text"],
                    [address |-> 1024, size |-> 64, align |-> 8, kind |-> "Data"],
                    [address |-> 4096, size |-> 64, align |-> 8,
                     kind |-> "UninitializedData"],
                    [address |-> 8192, size |-> 32, align |-> 8,
                     kind |-> "UninitializedTls"]>>]

\* Option::None of an address or a number.
NoAddr == 0 - 1

\* The symbol resolver, show.rs query_symbol_by_addr. An object is its
\* format, the symbols of its table by index, and its dynamic relocations
\* sorted by address; `got` says whether it has a GOT section.
MaxRelas == 2       \* dynamic relocations of an object

ObjSymbols ==
    <<[name |-> "a", address |-> 256], [name |-> "b", address |-> 320],
      [name |-> "ext", address |-> 0]>>

\* obj.symbol_map(): the defined symbols by address.
Addr2Sym == { s \in {ObjSymbols[i] : i \in 1..Len(ObjSymbols)} : s.address # 0 }

NoSym == [name |-> "", address |-> NoAddr]

\* addr2sym.binary_search_by_key(&addr, |sym| sym.address())
MapLookup(addr) ==
    IF \E s \in Addr2Sym : s.address = addr
    THEN CHOOSE s \in Addr2Sym : s.address = addr
    ELSE NoSym

\* The sections of an object by name: the GOT is .got on ELF and __got on Mach-O.
GotName(format) == IF format = "MachO" THEN "__got" ELSE ".got"
GotSection == [address |-> 1024, size |-> 16]

\* object's section_by_name: the name as given, and on Mach-O also the name
\* with the leading "." written "__".
SectionByNameExact(obj, name) ==
    IF obj.got /\ GotName(obj.format) = name THEN <<GotSection>> ELSE <<>>
SectionByName(obj, name) ==
    IF ~obj.got THEN <<>>
    ELSE IF GotName(obj.format) = name THEN <<GotSection>>
    ELSE IF obj.format = "MachO" /\ name = ".got" THEN <<GotSection>>
    ELSE <<>>

\* dyn_rela.binary_search_by_key(&addr, ..): Ok(idx) of the entry at the
\* address, else Err(idx) of the place to insert it (indices from 1).
RelaSearch(dyn_rela, addr) ==
    LET n == Len(dyn_rela)
        hit == { i \in 1..n : dyn_rela[i].addr = addr }
    IN  IF hit # {} THEN [ok |-> TRUE, idx |-> CHOOSE i \in hit : TRUE]
        ELSE [ok |-> FALSE,
              idx |-> Cardinality({ i \in 1..n : dyn_rela[i].addr < addr }) + 1]

\* rela.target(): the symbol's name and own address, or the symbol of the map
\* at the addend.
RelaTarget(rela) ==
    IF rela.kind = "Symbol"
    THEN IF rela.symidx \in 1..Len(ObjSymbols)
         THEN ObjSymbols[rela.symidx] ELSE NoSym
    ELSE IF rela.kind = "Absolute"
    THEN IF rela.addend < 0 THEN NoSym ELSE MapLookup(rela.addend)
    ELSE NoSym

query_symbol_by_addr(obj, addr) ==
    IF MapLookup(addr) # NoSym THEN MapLookup(addr)
    ELSE LET section == SectionByName(obj, ".got") IN
         IF section = <<>> THEN NoSym
         ELSE IF ~(section[1].address <= addr
                   /\ addr < section[1].address + section[1].size)
         THEN NoSym
         ELSE LET r == RelaSearch(obj.dyn_rela, addr) IN
              IF ~r.ok /\ ~(Len(obj.dyn_rela) >= r.idx) THEN NoSym
              ELSE LET rela == obj.dyn_rela[r.idx] IN
                   IF ~(addr <= rela.addr /\ rela.addr < addr + 8) THEN NoSym
                   ELSE RelaTarget(rela)

\* The relocations objects have: of a symbol (defined, undefined, or of a bad
\* index), absolute (a symbol's address, another address, negative), others.
RelaTargets ==
    { [kind |-> "Symbol", symidx |-> i, addend |-> 0] : i \in {1, 3, 4} }
    \cup { [kind |-> "Absolute", symidx |-> 0, addend |-> a] : a \in {256, 300, 0 - 8} }
    \cup { [kind |-> "Section", symidx |-> 0, addend |-> 0] }
RelaAddrs == {1024, 1030, 1044}
Relas == { [addr |-> a, kind |-> t.kind, symidx |-> t.symidx, addend |-> t.addend] :
            a \in RelaAddrs, t \in RelaTargets }
DynRelas ==
    { l \in UNION {[1..k -> Relas] : k \in 0..MaxRelas} :
        \A j \in 1..(Len(l) - 1) : l[j].addr < l[j + 1].addr }

QueryAddrs == {256, 300, 1016, 1024, 1032, 1040, 2048}

ResolveInputs ==
    { [op |-> "resolve", obj |-> [format |-> f, got |-> g, dyn_rela |-> l],
       addr |-> a, pc |-> "call", result |-> NoSym] :
        f \in {"Elf", "MachO"}, g \in BOOLEAN, l \in DynRelas, a \in QueryAddrs }

\* query_symbol_by_addr is called and returns.
Resolve ==
    /\ calc.op = "resolve"
    /\ calc.pc = "call"
    /\ calc' = [calc EXCEPT !.pc = "done",
                            !.result = query_symbol_by_addr(calc.obj, calc.addr)]
    /\ UNCHANGED mvars

\* The object of the search: the slot at Obj.got is bound to the symbol a.
SearchObj ==
    [format |-> "Elf", got |-> TRUE,
     dyn_rela |-> <<[addr |-> Obj.got, kind |-> "Symbol", symidx |-> 1, addend |-> 0]>>]

\* query_symbol_by_addr: the canonical address of the symbol at the address,
\* or of the symbol the relocation of the .got slot targets.
QuerySymbolByAddr(addr) == query_symbol_by_addr(SearchObj, addr).address

\* Instructions: the group, the kind of the first operand ("imm" with the
\* immediate in target, "rip" a memory reference based on RIP with the
\* displacement in disp, "mem" one based on another register, "reg", "none"),
\* and the address of the instruction.
Inst(group, op, target, disp, address) ==
    [group |-> group, op |-> op, target |-> target, disp |-> disp, address |-> address]
Call(target) == Inst("call", "imm", target, 0, 0)
Other == Inst("other", "none", NoAddr, 0, 0)
Insts == {Other, Call(Obj.a), Call(Obj.got), Call(Obj.b)}

\* u64::checked_add_signed (the model has no address near u64::MAX).
CheckedAddSigned(address, disp) ==
    IF address + disp < 0 THEN NoAddr ELSE address + disp

\* Disassembler::operand2addr: Ok(Some), Ok(None), or Err for Wasm.
DisasmOperand2Addr(disasm, inst) ==
    IF disasm \notin {"X86_64", "Aarch64"} THEN [ok |-> FALSE, addr |-> NoAddr]
    ELSE IF inst.group \notin {"call", "jump"} THEN [ok |-> TRUE, addr |-> NoAddr]
    ELSE IF inst.op = "imm"
    THEN [ok |-> TRUE, addr |-> IF inst.target < 0 THEN NoAddr ELSE inst.target]
    ELSE IF inst.op = "rip" /\ disasm = "X86_64"
    THEN [ok |-> TRUE, addr |-> CheckedAddSigned(inst.address, inst.disp)]
    ELSE [ok |-> TRUE, addr |-> NoAddr]

\* SymbolMap::get: the symbol at the address or the nearest one below it.
MapGet(addr) == \E s \in Addr2Sym : s.address <= addr

\* show.rs operand2addr, which show_text uses for its annotation.
ShowOperand2Addr(disasm, inst) ==
    IF inst.group \notin {"call", "jump"} THEN NoAddr
    ELSE IF disasm # "X86_64" THEN NoAddr
    ELSE IF inst.op = "imm"
    THEN IF inst.target >= 0 /\ MapGet(inst.target) THEN inst.target ELSE NoAddr
    ELSE IF inst.op = "rip"
    THEN IF inst.disp < 0 THEN NoAddr ELSE inst.address + inst.disp
    ELSE NoAddr

\* Call, jump and other instructions with every kind of first operand.
OperandInsts ==
    { Inst(g, "imm", t, 0, 512) : g \in {"call", "jump", "other"}, t \in {256, 100, 0 - 16} }
    \cup { Inst(g, "rip", NoAddr, d, 512) : g \in {"call", "jump", "other"},
                                           d \in {0 - 1024, 0 - 256, 0, 64} }
    \cup { Inst(g, o, NoAddr, 64, 512) : g \in {"call", "jump"}, o \in {"mem", "reg", "none"} }

OperandInputs ==
    { [op |-> "operand", arch |-> a, inst |-> i, pc |-> "call",
       callsite |-> [ok |-> FALSE, addr |-> NoAddr], shown |-> NoAddr] :
        a \in {"X86_64", "Aarch64"}, i \in OperandInsts }

\* The target of one instruction as by_call extracts it (disasm.rs) and as
\* show_text extracts it (show.rs).
Operand ==
    /\ calc.op = "operand"
    /\ calc.pc = "call"
    /\ calc' = [calc EXCEPT !.pc = "done",
                    !.callsite = DisasmOperand2Addr(DisassemblerNew(calc.arch), calc.inst),
                    !.shown = ShowOperand2Addr(BuildDisasm(calc.arch), calc.inst)]
    /\ UNCHANGED mvars

\* by_call, the loop over the instructions of one symbol: "found" is
\* Some(Ok(..)), "none" is None, "err" is Some(Err(..)).
RECURSIVE ScanInsts(_, _, _)
ScanInsts(disasm, insts, address) ==
    IF insts = <<>> THEN "none"
    ELSE LET r == DisasmOperand2Addr(disasm, Head(insts)) IN
         IF ~r.ok THEN "err"
         ELSE IF r.addr = NoAddr THEN "none"
         ELSE IF QuerySymbolByAddr(r.addr) = address THEN "found"
         ELSE ScanInsts(disasm, Tail(insts), address)

\* The symbols of the object: 1 and 2 lie in the section of the symbol
\* searched for, 3 lies in another section.
Syms == {1, 2, 3}
InSection(s) == s \in {1, 2}

Bodies == UNION {[1..k -> Insts] : k \in 0..MaxInsts}

NoIo == [cache |-> 0, sections |-> 0, out |-> 0]

\* symlist, the symbol indices sorted by address: the table has the symbol
\* at the lower address second.
SymListOrder == <<2, 1, 3>>

\* The name and the size of a symbol as by_call collects them.
Caller(s) ==
    [idx |-> s, name |-> <<<<2>>, <<1>>, <<1, Dot, 1>>>>[s], size |-> <<16, 32, 8>>[s]]

\* The sort flags are varied for the callsite search, which alone reads them
\* in this model.
SearchInputs ==
    { [op |-> "search", callsite |-> f[1], data |-> f[2], arch |-> a,
       sort_size |-> f[3], sort_name |-> f[4],
       body |-> <<b1, b2, <<Call(Obj.a)>> >>, pc |-> "exec", route |-> "none",
       todo |-> {}, output |-> {}, printed |-> <<>>, disasm |-> "none",
       io |-> NoIo, err |-> "none"] :
        f \in { g \in BOOLEAN \X BOOLEAN \X BOOLEAN \X BOOLEAN :
                  (g[3] \/ g[4]) => (g[1] /\ ~g[2]) },
        a \in Archs, b1 \in Bodies, b2 \in {<<>>, <<Call(Obj.a)>>} }

\* Command::exec: match (self.callsite, self.data)
SearchRouteCallsiteFirst(callsite, data) ==
    IF callsite THEN "by_call"
    ELSE IF data THEN "by_data"
    ELSE "by_symbol"
SearchRoute(callsite, data) ==
    IF callsite /\ data THEN "MutuallyExclusive"
    ELSE IF callsite THEN "by_call"
    ELSE IF data THEN "by_data"
    ELSE "by_symbol"

SearchExec ==
    /\ calc.op = "search"
    /\ calc.pc = "exec"
    /\ LET r == SearchRoute(calc.callsite, calc.data) IN
       calc' = IF r = "MutuallyExclusive"
               THEN [calc EXCEPT !.pc = "failed", !.err = r]
               ELSE [calc EXCEPT !.pc = r, !.route = r]
    /\ UNCHANGED mvars

\* by_symbol: symlist is taken from the cache, the matches are printed.
BySymbol ==
    /\ calc.op = "search"
    /\ calc.pc = "by_symbol"
    /\ calc' = [calc EXCEPT !.pc = "done", !.io.cache = @ + 1,
                            !.io.out = @ + Cardinality(Syms)]
    /\ UNCHANGED mvars

\* by_data: the data sections are read through the cache, the matches printed.
ByData ==
    /\ calc.op = "search"
    /\ calc.pc = "by_data"
    /\ calc' = [calc EXCEPT !.pc = "done", !.io.sections = @ + 1, !.io.out = @ + 1]
    /\ UNCHANGED mvars

\* by_call up to the scan: symlist, addr2sym, dyn_rela, the symbol at the
\* address, the data of its section.
ByCallOpen ==
    /\ calc.op = "search"
    /\ calc.pc = "by_call"
    /\ calc' = [calc EXCEPT !.pc = "scan", !.todo = Syms,
                            !.io.cache = @ + 3, !.io.sections = @ + 1]
    /\ UNCHANGED mvars

\* by_call, the closure of filter_map for one symbol (par_iter: in any order).
ByCallScan(s) ==
    /\ calc.op = "search"
    /\ calc.pc = "scan"
    /\ s \in calc.todo
    /\ IF ~InSection(s)
       THEN calc' = [calc EXCEPT !.todo = @ \ {s}]
       ELSE LET disasm == DisassemblerNew(calc.arch)
                r == ScanInsts(disasm, calc.body[s], Obj.a)
            IN  calc' =
                  IF disasm = "UnsupportedArch"
                  THEN [calc EXCEPT !.pc = "failed", !.disasm = disasm, !.err = disasm]
                  ELSE IF r = "err"
                  THEN [calc EXCEPT !.pc = "failed", !.disasm = "ok",
                                    !.err = "unsupported arch"]
                  ELSE [calc EXCEPT !.todo = @ \ {s}, !.disasm = "ok",
                            !.output = IF r = "found" THEN @ \cup {s} ELSE @]
    /\ UNCHANGED mvars

\* The comparator of by_call's output.sort_unstable_by.
CallerCmpNoIndex(x, y, sort_size, sort_name) ==
    IF ~sort_size /\ ~sort_name THEN 0
    ELSE IF sort_size /\ ~sort_name THEN IntCmp(x.size, y.size)
    ELSE IF ~sort_size /\ sort_name THEN StrCmp(x.name, y.name)
    ELSE IF StrCmp(x.name, y.name) # 0 THEN StrCmp(x.name, y.name)
    ELSE IntCmp(x.size, y.size)
CallerCmp(x, y, sort_size, sort_name) ==
    IF ~sort_size /\ ~sort_name THEN IntCmp(x.idx, y.idx)
    ELSE IF sort_size /\ ~sort_name THEN IntCmp(x.size, y.size)
    ELSE IF ~sort_size /\ sort_name THEN StrCmp(x.name, y.name)
    ELSE IF StrCmp(x.name, y.name) # 0 THEN StrCmp(x.name, y.name)
    ELSE IntCmp(x.size, y.size)

\* collect::<Result<Vec<_>>>() of the parallel iterator: the results of the
\* workers in the order of symlist, whichever worker finished first.
Collect(found) ==
    LET hit == SelectSeq(SymListOrder, LAMBDA s : s \in found)
    IN  [k \in 1..Len(hit) |-> Caller(hit[k])]

\* by_call after the scan: the callers are collected, sorted and printed.
ByCallPrint ==
    /\ calc.op = "search"
    /\ calc.pc = "scan"
    /\ calc.todo = {}
    /\ \E out \in SortedBy(Collect(calc.output),
                    LAMBDA x, y : CallerCmp(x, y, calc.sort_size, calc.sort_name)) :
          calc' = [calc EXCEPT !.pc = "done", !.printed = out,
                               !.io.out = @ + Len(out)]
    /\ UNCHANGED mvars

-----------------------------------------------------------------------------
(* The show command: show.rs Command::exec, by_symbol, by_section; util.rs u64ptr *)

\* A u64 as its eight big-endian bytes (u64::from_be_bytes).
Zeros(n) == [i \in 1..n |-> 0]
NatToU64(n) ==
    Zeros(4) \o <<(n \div 16777216) % 256, (n \div 65536) % 256, (n \div 256) % 256, n % 256>>
InNat(x) == SubSeq(x, 1, 4) = Zeros(4) /\ x[5] < 128
U64ToNat(x) == ((x[5] * 256 + x[6]) * 256 + x[7]) * 256 + x[8]
NoU64 == <<>>

\* The hexadecimal digits of a u64, without leading zeros.
RECURSIVE StripZeros(_)
StripZeros(digits) ==
    IF Len(digits) > 1 /\ Head(digits) = 0 THEN StripZeros(Tail(digits)) ELSE digits
Hex(x) == StripZeros([i \in 1..16 |-> IF i % 2 = 1 THEN x[(i + 1) \div 2] \div 16
                                       ELSE x[i \div 2] % 16])

\* HEXLOWER_PERMISSIVE.decode_len: the length must be a whole number of bytes.
HexDecodeLen(len) ==
    IF len % 2 = 0 THEN [ok |-> TRUE, n |-> len \div 2] ELSE [ok |-> FALSE, n |-> 0]

\* decode_mut: one byte from every two digits.
HexDecode(digits) ==
    [i \in 1..(Len(digits) \div 2) |-> digits[2 * i - 1] * 16 + digits[2 * i]]

RECURSIVE FromDecimal(_, _)
FromDecimal(digits, acc) ==
    IF digits = <<>> THEN acc ELSE FromDecimal(Tail(digits), acc * 10 + Head(digits))

\* u64ptr: "0x" and hexadecimal digits, or a decimal number (the model has
\* decimal numbers of at most nine digits).
u64ptr(value) ==
    IF value.hex
    THEN LET len == HexDecodeLen(Len(value.digits)) IN
         IF ~len.ok THEN [ok |-> FALSE, val |-> NoU64, err |-> "hex decode_len"]
         ELSE IF len.n > 8
         THEN [ok |-> FALSE, val |-> NoU64, err |-> "hex value is greater than 64bit"]
         ELSE [ok |-> TRUE, val |-> Zeros(8 - len.n) \o HexDecode(value.digits),
               err |-> "none"]
    ELSE IF value.digits = <<>>
    THEN [ok |-> FALSE, val |-> NoU64, err |-> "number parse failed"]
    ELSE [ok |-> TRUE, val |-> NatToU64(FromDecimal(value.digits, 0)), err |-> "none"]

\* Values of u64 from 0 to u64::MAX, by their bytes.
U64Values ==
    { NatToU64(n) : n \in {0, 1, 15, 16, 255, 256, 320, 4095, 65536} }
    \cup { [i \in 1..8 |-> 255], <<128, 0, 0, 0, 0, 0, 0, 0>>,
           <<1, 35, 69, 103, 137, 171, 205, 239>>, <<0, 0, 0, 1, 0, 0, 0, 0>> }

HexString(digits) == [hex |-> TRUE, digits |-> digits]
DecString(digits) == [hex |-> FALSE, digits |-> digits]

\* A panic of the task (an arithmetic overflow, align_offset of a bad align).
Panic(what) == [ok |-> FALSE, start |-> NoAddr, len |-> NoAddr, err |-> what]

IsPowerOfTwo(a) == \E k \in 0..30 : a = 2 ^ k

\* <*const u8>::align_offset: the bytes to add to reach the alignment.
AlignOffset(addr, align) == (align - (addr % align)) % align

\* The section kinds by_symbol shows as empty data.
Uninitialized(kind) == kind \in {"UninitializedData", "UninitializedTls"}

\* cache.data(..): uncompressed_data() of a section is its bytes in the
\* file, and a section without bytes in the file has none.
DataLen(section) == IF Uninitialized(section.kind) THEN 0 ELSE section.size

\* by_section after the section is found: the start and length of the data
\* shown. data.len() - offset overflows (or, unchecked, the slice
\* data[offset..] is out of range) when the offset is beyond the data.
BySectionRange(addr, align, length, section) ==
    LET al == IF align = NoAddr THEN section.align ELSE align IN
    IF ~IsPowerOfTwo(al) THEN Panic("align_offset: align is not a power-of-two")
    ELSE LET new_addr == AlignOffset(addr, al)
             start == IF addr = new_addr \/ new_addr < al THEN addr ELSE new_addr - al
             offset == start - section.address
             len == IF length = NoAddr THEN 256 ELSE length
         IN  IF offset < 0 \/ offset > DataLen(section)
             THEN Panic("attempt to subtract with overflow")
             ELSE [ok |-> TRUE, start |-> start,
                   len |-> IF len < DataLen(section) - offset THEN len
                           ELSE DataLen(section) - offset,
                   err |-> "none"]

\* obj.sections().find(..): the first section that holds the address.
FindSection(addr) ==
    LET hit == SelectSeq(Obj.sections,
                   LAMBDA sec : sec.address <= addr /\ addr < sec.address + sec.size)
    IN  IF hit = <<>> THEN <<>> ELSE <<hit[1]>>

NoRange == [ok |-> FALSE, start |-> NoAddr, len |-> NoAddr, err |-> "none"]

ShowCommand(address, x, no_symbol, arch, align, length) ==
    [op |-> "show", address |-> address, x |-> x, no_symbol |-> no_symbol,
     arch |-> arch, align |-> align, length |-> length, pc |-> "exec",
     parsed |-> [ok |-> FALSE, val |-> NoU64, err |-> "none"],
     range |-> NoRange, disasm |-> "none", shown |-> NoAddr, err |-> "none"]

ShowInputs ==
    \* addresses of every width, without and with a leading zero, and too long
    { ShowCommand(HexString(Zeros(pad) \o Hex(x)), x, FALSE, "X86_64", NoAddr, NoAddr) :
        x \in U64Values, pad \in 0..1 }
    \cup { ShowCommand(HexString(<<1>> \o Zeros(16)), NoU64, FALSE, "X86_64", NoAddr, NoAddr) }
    \* section mode: decimal addresses in and out of the sections
    \cup { ShowCommand(DecString(d), NoU64, TRUE, "X86_64", al, ln) :
            d \in {<<2, 5, 6>>, <<2, 5, 7>>, <<2, 7, 1>>, <<2, 7, 2>>, <<6, 0, 0>>,
                   <<7, 6, 7>>, <<1, 0, 3, 0>>, <<9, 0, 0>>},
            al \in {NoAddr, 1, 3, 4, 16, 64},
            ln \in {NoAddr, 8, 300} }
    \* a text symbol on every architecture
    \cup { ShowCommand(HexString(Hex(NatToU64(Obj.a))), NatToU64(Obj.a), FALSE, a,
                       NoAddr, NoAddr) : a \in Archs }
    \* the sections without bytes: by their variables and in section mode
    \cup { ShowCommand(HexString(Hex(NatToU64(v))), NatToU64(v), FALSE, "X86_64",
                       NoAddr, NoAddr) : v \in {Obj.bssvar, Obj.tlsvar} }
    \cup { ShowCommand(DecString(d), NoU64, TRUE, "X86_64", al, ln) :
            d \in {<<4, 0, 9, 6>>, <<4, 1, 0, 4>>, <<8, 1, 9, 2>>, <<8, 2, 0, 0>>},
            al \in {NoAddr, 8}, ln \in {NoAddr, 8} }

\* Command::exec: u64ptr(&self.address)?, then by_symbol or by_section.
ShowExec ==
    /\ calc.op = "show"
    /\ calc.pc = "exec"
    /\ LET r == u64ptr(calc.address) IN
       calc' = IF ~r.ok THEN [calc EXCEPT !.pc = "failed", !.parsed = r, !.err = r.err]
               ELSE [calc EXCEPT !.parsed = r,
                        !.pc = IF calc.no_symbol THEN "by_section" ELSE "by_symbol"]
    /\ UNCHANGED mvars

\* The symbols of the object: address, section, kind and symbol_size.
ShowSymbols ==
    { [address |-> Obj.a, section |-> 1, kind |-> "Text", size |-> 64],
      [address |-> Obj.b, section |-> 1, kind |-> "Text", size |-> 64],
      [address |-> Obj.bssvar, section |-> 3, kind |-> "Data", size |-> 16],
      [address |-> Obj.tlsvar, section |-> 4, kind |-> "Tls", size |-> 8] }

\* by_symbol: the data of the symbol, &data[offset..][..size], or the empty
\* slice in a section without bytes.
SymbolData(sym) ==
    LET section == Obj.sections[sym.section]
        offset == sym.address - section.address
    IN  IF Uninitialized(section.kind) THEN [ok |-> TRUE, len |-> 0]
        ELSE IF offset + sym.size > DataLen(section) THEN [ok |-> FALSE, len |-> 0]
        ELSE [ok |-> TRUE, len |-> sym.size]

\* by_symbol: the symbol at the address and its data; a text symbol goes to
\* show_text, which builds the disassembler, another one to show_data.
ShowBySymbol ==
    /\ calc.op = "show"
    /\ calc.pc = "by_symbol"
    /\ LET x == calc.parsed.val
           hit == IF InNat(x) THEN { y \in ShowSymbols : y.address = U64ToNat(x) } ELSE {}
       IN
       calc' = IF hit = {}
               THEN [calc EXCEPT !.pc = "failed", !.err = "not found symbol by address"]
               ELSE LET sym == CHOOSE y \in hit : TRUE
                        data == SymbolData(sym)
                        d == BuildDisasm(calc.arch)
                    IN
                    IF ~data.ok
                    THEN [calc EXCEPT !.pc = "panic", !.err = "range end index out of range"]
                    ELSE IF sym.kind # "Text"
                    THEN [calc EXCEPT !.pc = "done", !.shown = data.len]
                    ELSE IF d = "UnsupportedArch"
                    THEN [calc EXCEPT !.pc = "failed", !.disasm = d, !.err = d]
                    ELSE [calc EXCEPT !.pc = "done", !.disasm = "ok", !.shown = data.len]
    /\ UNCHANGED mvars

\* by_section: the section, the alignment, the range; then the data is shown.
ShowBySection ==
    /\ calc.op = "show"
    /\ calc.pc = "by_section"
    /\ LET x == calc.parsed.val
           sec == IF InNat(x) THEN FindSection(U64ToNat(x)) ELSE <<>>
       IN  calc' =
             IF sec = <<>>
             THEN [calc EXCEPT !.pc = "failed", !.err = "not found section"]
             ELSE LET r == BySectionRange(U64ToNat(x), calc.align, calc.length, sec[1])
                  IN  IF r.ok THEN [calc EXCEPT !.pc = "done", !.range = r,
                                                !.shown = r.len]
                      ELSE [calc EXCEPT !.pc = "panic", !.range = r, !.err = r.err]
    /\ UNCHANGED mvars

-----------------------------------------------------------------------------
(* The size of a symbol: explorer.rs Explorer::symbol_size *)

MaxSyms == 3        \* symbols in the symbol table

\* Two sections with a gap between them, and the addresses symbols can have.
SymSections == <<[address |-> 256, size |-> 96], [address |-> 384, size |-> 64]>>
SymAddrs == {256, 320, 400}
SectionOf(addr) ==
    SelectSeq(SymSections,
        LAMBDA sec : sec.address <= addr /\ addr < sec.address + sec.size)[1]

\* sym.size(): the size the symbol table records (none on Mach-O).
RecordedSize(format) == IF format = "MachO" THEN 0 ELSE 16

\* symlist: the symbols sorted by address (several may share an address).
SymLists ==
    { l \in UNION {[1..k -> SymAddrs] : k \in 1..MaxSyms} :
        \A j \in 1..(Len(l) - 1) : l[j] <= l[j + 1] }

SymSizeInputs ==
    { c \in [op : {"symsize"}, format : {"MachO", "Elf"}, list : SymLists,
             i : 1..MaxSyms, pc : {"start"}, found : {0}, size : {NoAddr},
             err : {"none"}] : c.i <= Len(c.list) }

\* symbol_by_index, format(); on Mach-O the binary search of symlist by the
\* address of the symbol, which returns any one of the entries that match.
SymbolSizeSearch ==
    /\ calc.op = "symsize"
    /\ calc.pc = "start"
    /\ IF calc.format # "MachO"
       THEN calc' = [calc EXCEPT !.pc = "done", !.size = RecordedSize(calc.format)]
       ELSE \E idx \in 1..Len(calc.list) :
                /\ calc.list[idx] = calc.list[calc.i]
                /\ calc' = [calc EXCEPT !.pc = "next", !.found = idx]
    /\ UNCHANGED mvars

\* symlist.get(idx + 1): the next entry, else the end of the section.
SymbolSizeNext ==
    /\ calc.op = "symsize"
    /\ calc.pc = "next"
    /\ LET addr == calc.list[calc.i]
           sec == SectionOf(addr)
       IN  calc' = [calc EXCEPT !.pc = "done",
                        !.size = IF calc.found + 1 <= Len(calc.list)
                                 THEN calc.list[calc.found + 1] - addr
                                 ELSE sec.address + sec.size - addr]
    /\ UNCHANGED mvars

-----------------------------------------------------------------------------
(* The specification of the queries *)

InitQuery ==
    /\ InitSession
    /\ InitCache
    /\ calc \in SearchInputs \cup ShowInputs \cup SymSizeInputs

NextQuery ==
    \/ SearchExec
    \/ BySymbol
    \/ ByData
    \/ ByCallOpen
    \/ \E s \in Syms : ByCallScan(s)
    \/ ByCallPrint
    \/ ShowExec
    \/ ShowBySymbol
    \/ ShowBySection
    \/ SymbolSizeSearch
    \/ SymbolSizeNext

SpecQuery == InitQuery /\ [][NextQuery]_vars

-----------------------------------------------------------------------------
(* The symbol search in detail: search.rs by_symbol *)

MaxMatched == 3     \* symbols the keyword matches

Names == {<<1>>, <<1, Dot, 1>>, <<1, Dot, 1, Dot, 2>>, <<2>>, <<2, Dot, 1>>}

\* name.split('.').next(): the part of the name before its first '.'.
RECURSIVE SplitLast(_)
SplitLast(name) ==
    IF \A k \in 1..Len(name) : name[k] # Dot THEN name
    ELSE IF name[Len(name)] = Dot THEN SubSeq(name, 1, Len(name) - 1)
    ELSE SplitLast(SubSeq(name, 1, Len(name) - 1))
RECURSIVE SplitFirst(_)
SplitFirst(name) ==
    IF name = <<>> \/ Head(name) = Dot THEN <<>>
    ELSE <<Head(name)>> \o SplitFirst(Tail(name))

\* The comparator of output.sort_unstable_by.
SymbolCmp(x, y, sort_size, sort_name) ==
    IF ~sort_size /\ ~sort_name THEN 0
    ELSE IF sort_size /\ ~sort_name THEN IntCmp(x.size, y.size)
    ELSE IF ~sort_size /\ sort_name THEN StrCmp(x.name, y.name)
    ELSE IF StrCmp(x.name, y.name) # 0 THEN StrCmp(x.name, y.name)
    ELSE IntCmp(x.size, y.size)

\* symbol_size of the i-th symbol of symlist (the sizes fall with the index).
SizeAt(i) == 8 * (MaxMatched + 2 - i)

\* output.sort_unstable_by(..) of by_symbol.
Sorted(out, sort_size, sort_name) ==
    SortedBy(out, LAMBDA x, y : SymbolCmp(x, y, sort_size, sort_name))

\* The loop over the output: with only_duplicate, dup.insert(dupname) is true
\* for a base name not seen before and the symbol is skipped.
RECURSIVE WalkOutput(_, _, _)
WalkOutput(out, dup, only_duplicate) ==
    IF out = <<>> THEN <<>>
    ELSE LET dupname == SplitFirst(Head(out).name) IN
         IF only_duplicate /\ dupname \notin dup
         THEN WalkOutput(Tail(out), dup \cup {dupname}, only_duplicate)
         ELSE <<Head(out)>> \o WalkOutput(Tail(out), dup, only_duplicate)

RECURSIVE SumSizes(_)
SumSizes(out) == IF out = <<>> THEN 0 ELSE Head(out).size + SumSizes(Tail(out))

BySymbolInputs ==
    { [op |-> "symbols", matched |-> m, size |-> f[1], sort_size |-> f[2],
       sort_name |-> f[3], only_duplicate |-> f[4], pc |-> "loop",
       output |-> <<>>, printed |-> <<>>, sum |-> 0, sumline |-> NoAddr] :
        m \in UNION {[1..k -> Names] : k \in 0..MaxMatched},
        f \in BOOLEAN \X BOOLEAN \X BOOLEAN \X BOOLEAN }

\* by_symbol, the loop over symlist: a match is printed at once when nothing
\* asks for the whole result, else it is pushed to output.
BySymbolCollect ==
    /\ calc.op = "symbols"
    /\ calc.pc = "loop"
    /\ LET all == [i \in 1..Len(calc.matched) |->
                      [idx |-> i, name |-> calc.matched[i],
                       size |-> IF calc.size \/ calc.sort_size THEN SizeAt(i) ELSE 0]]
       IN  calc' = IF ~calc.sort_size /\ ~calc.sort_name /\ ~calc.only_duplicate
                   THEN [calc EXCEPT !.pc = "sort", !.printed = all,
                                     !.sum = SumSizes(all)]
                   ELSE [calc EXCEPT !.pc = "sort", !.output = all]
    /\ UNCHANGED mvars

\* by_symbol: output.sort_unstable_by(..)
BySymbolSort ==
    /\ calc.op = "symbols"
    /\ calc.pc = "sort"
    /\ \E out \in Sorted(calc.output, calc.sort_size, calc.sort_name) :
          calc' = [calc EXCEPT !.pc = "walk", !.output = out]
    /\ UNCHANGED mvars

\* by_symbol: the loop over output, then the sum line.
BySymbolWalk ==
    /\ calc.op = "symbols"
    /\ calc.pc = "walk"
    /\ LET p == WalkOutput(calc.output, {}, calc.only_duplicate)
           sum == calc.sum + SumSizes(p)
       IN  calc' = [calc EXCEPT !.pc = "done", !.printed = @ \o p, !.sum = sum,
                        !.sumline = IF calc.size THEN sum ELSE NoAddr]
    /\ UNCHANGED mvars

-----------------------------------------------------------------------------
(* The raw dump: show.rs dump_data *)

ChunkSize == 4096   \* 4 * 1024, the argument of data.chunks

\* data.chunks(4 * 1024): the i-th chunk (from 0) of n bytes, as the offset
\* of its first byte and its length.
Chunk(n, i) ==
    [from |-> i * ChunkSize,
     len |-> IF n - i * ChunkSize < ChunkSize THEN n - i * ChunkSize ELSE ChunkSize]
Chunks(n) == (n + ChunkSize - 1) \div ChunkSize

DumpInputs ==
    { [op |-> "dump", n |-> n, pc |-> "loop", i |-> 0, point |-> 0, ev |-> <<>>] :
        n \in {0, 1, ChunkSize, ChunkSize + 1, 3 * ChunkSize} }

\* dump_data, one turn of the loop: write_all(chunk), point.yield_now().await.
DumpChunk ==
    /\ calc.op = "dump"
    /\ calc.pc = "loop"
    /\ calc.i < Chunks(calc.n)
    /\ LET c == Chunk(calc.n, calc.i)
           y == YieldNow(calc.point)
           w == Append(calc.ev, [t |-> "write", from |-> c.from, len |-> c.len])
       IN  calc' = [calc EXCEPT !.i = @ + 1, !.point = y.point,
                        !.ev = IF y.yield
                               THEN Append(w, [t |-> "yield", from |-> 0, len |-> 0])
                               ELSE w]
    /\ UNCHANGED mvars

\* dump_data: the chunks are used up, Ok(()).
DumpEnd ==
    /\ calc.op = "dump"
    /\ calc.pc = "loop"
    /\ calc.i = Chunks(calc.n)
    /\ calc' = [calc EXCEPT !.pc = "done"]
    /\ UNCHANGED mvars

-----------------------------------------------------------------------------
(* The specification of the resolver, the operands and the output *)

InitDetail ==
    /\ InitSession
    /\ InitCache
    /\ calc \in ResolveInputs \cup OperandInputs \cup BySymbolInputs \cup DumpInputs

NextDetail ==
    \/ Resolve
    \/ Operand
    \/ BySymbolCollect
    \/ BySymbolSort
    \/ BySymbolWalk
    \/ DumpChunk
    \/ DumpEnd

SpecDetail == InitDetail /\ [][NextDetail]_vars

-----------------------------------------------------------------------------
(* Claims about the session *)

IsPrefix(s, t) == /\ Len(s) <= Len(t)
                  /\ \A i \in 1..Len(s) : s[i] = t[i]

Has(s, e) == \E i \in 1..Len(s) : s[i] = e

\* The events of a connection task that runs to the end.
FullRun == <<"start", "stdin", "stdout", "stderr", "cmd", "end", "exit">>

\* C1: on every connection the server reads the Start frame, then receives
\* stdin, stdout and stderr in this order, starts the command only when it
\* holds all three, and writes the Exit frame only after the command returned.
C1_StartFdsCommandExit ==
    \A c \in Conn :
        /\ IsPrefix(conns[c].ev, FullRun)
        /\ conns[c].pc \in {"select", "cmd", "report", "send_exit", "done", "cancelled"}
              => Len(conns[c].fds) = 3
        /\ (Len(conns[c].fds) = 3 /\ peers[c].kind = "proto")
              => WrapStdio(conns[c].fds) = [stdin |-> "in", stdout |-> "out", stderr |-> "err"]
        /\ conns[c].out # <<>> => conns[c].res # "none"

C1_Witness ==
    \E c \in Conn : conns[c].ev = FullRun /\ conns[c].out = <<"Ok">>

\* C2: when the client closes its end while the command is running, the
\* command never returns and no Exit frame is written on the connection.
C2_CloseStopsCommand ==
    \A c \in Conn :
        conns[c].closedInCmd => (conns[c].res = "none" /\ conns[c].out = <<>>)

\* C3: a connection task that ended with its client still connected has, when
\* the command returned an error, written the message to stderr and sent
\* Exit Failure, and when the command returned Ok, sent Exit Ok.
C3_ErrorReportedThenExit ==
    \A c \in Conn :
        (conns[c].pc \in {"done", "failed", "cancelled"} /\ peers[c].open) =>
            /\ conns[c].res = "err" => (conns[c].errmsg /\ conns[c].out = <<"Failure">>)
            /\ conns[c].res = "ok" => conns[c].out = <<"Ok">>

\* C4: a connection never carries more than one Exit frame, and a task that
\* has ended, with a peer that sent Start and the three descriptors and is
\* still connected, and a command that returned, has sent exactly one.
C4_OneCommandOneExit ==
    \A c \in Conn :
        /\ Len(conns[c].out) <= 1
        /\ ( /\ conns[c].pc \in {"done", "failed", "cancelled"}
             /\ peers[c].kind = "proto" /\ peers[c].todo = <<>> /\ peers[c].open
             /\ conns[c].res # "none" )
              => Len(conns[c].out) = 1

\* C5: a client that waits for the answer of the server has sent the framed
\* Start and then its stdin, stdout and stderr descriptors, in this order.
C5_ClientSendsStartThenFds ==
    \A c \in Conn :
        (peers[c].kind = "call" /\ peers[c].cpc \in {"select", "drain"}) =>
            /\ Len(peers[c].sent) >= 4
            /\ SubSeq(peers[c].sent, 1, 4) = ProtoScript(peers[c].cmd)

\* C6: the client exits with status 0 exactly when it has read an Exit frame
\* with code Ok, and with status 1 otherwise.
C6_StatusFollowsExitFrame ==
    \A c \in Conn :
        (peers[c].kind = "call" /\ peers[c].cpc = "exit") =>
            /\ peers[c].status \in {0, 1}
            /\ peers[c].status = 0 <=>
                  (peers[c].relayed >= 1 /\ conns[c].out[1] = "Ok")

\* C7: a connection that fails before its command has no Exit frame, and the
\* step in which a connection task fails leaves the listener and every other
\* connection as they were.
C7_ConnectionErrorsAreIsolated ==
    /\ [](\A c \in Conn :
            (conns[c].pc = "failed" /\ ~Has(conns[c].ev, "cmd")) => conns[c].out = <<>>)
    /\ [][\A c \in Conn :
            (conns[c].pc # "failed" /\ conns'[c].pc = "failed") =>
                /\ srv' = srv
                /\ sockfile' = sockfile
                /\ \A d \in Conn \ {c} : conns'[d] = conns[d]]_vars

C7_Witness ==
    \E c \in Conn, d \in Conn :
        /\ conns[c].pc = "failed" /\ ~Has(conns[c].ev, "cmd")
        /\ conns[d].afterFail /\ conns[d].pc = "done" /\ conns[d].out = <<"Ok">>
        /\ srv = "listening"

\* C8: the socket file exists exactly while the server listens: bind creates
\* it, every way out of listen removes it, and a failure before bind leaves none.
C8_SocketFileIffListening ==
    sockfile <=> srv = "listening"

C8_Witness ==
    /\ srv = "exit_err" /\ ~sockfile
    /\ \E c \in Conn : conns[c].pc = "dropped"

\* C28: every descriptor a connection task received is closed by the time the
\* task ends, on every way out: normal end, command error, cancellation by
\* the client's disconnect, failed receive of the second or third descriptor.
C28_ReceivedFdsClosed ==
    \A c \in Conn :
        conns[c].pc \in {"done", "failed", "cancelled"} => OpenFds(conns[c]) = {}

-----------------------------------------------------------------------------
(* Claims about the cache *)

\* C9: the constructor of each of addr2sym, symlist and dyn_rela runs at most
\* once, however the accessor calls interleave, and every call returns the
\* same value.
C9_ConstructorRunsOnce ==
    \A k \in Cells :
        /\ cells[k].built <= 1
        /\ Cardinality(seen.once[k]) <= 1
        /\ seen.once[k] # {} => seen.once[k] = {cells[k].val}

\* Two first accesses to symlist overlapped, both calls have returned, and the
\* constructor ran once.
C9_Witness ==
    /\ cells["symlist"].raced
    /\ cells["symlist"].built = 1
    /\ seen.once["symlist"] = {1}
    /\ \A t \in Task : tasks[t].pc = "idle"

\* C10: for every section all calls of section_data that succeed return the
\* same buffer instance, and the section is read and decompressed at most once.
C10_OneBufferOneDecompression ==
    \A s \in Sections :
        /\ Cardinality(seen.data[s]) <= 1
        /\ dcache.reads[s] <= 1

\* A task inside Cache::data, the locks it holds and the lock it awaits.
InData(t) ==
    tasks[t].pc \in {"fast_map", "fast_chk", "fast_data", "fast_read", "ins_map",
                     "ins_chk", "ins_data", "ins_push", "re_map", "fin_data",
                     "fin_read"}
HoldsMap(t) == t \in dcache.mapR \/ dcache.mapW = t
HoldsData(t) == t \in dcache.dataR \/ dcache.dataW = t
AwaitsMap(t) == tasks[t].pc \in {"fast_map", "ins_map", "re_map"}
AwaitsData(t) == tasks[t].pc \in {"fast_data", "ins_data", "fin_data"}

\* C29: concurrent calls of section_data always return (a call ends unless
\* its caller drops it, and in every run where no caller does), no task waits
\* for the map lock while it holds the data lock, and so no two calls wait
\* for each other.
C29_DataCallsReturn ==
    /\ [](\A t \in Task : HoldsData(t) => ~AwaitsMap(t))
    /\ [](\A t \in Task : (AwaitsMap(t) \/ AwaitsData(t)) =>
            \E u \in Task : InData(u) /\ ENABLED (Acquire(u) \/ Proceed(u)))
    /\ \A t \in Task : InData(t) ~> ~InData(t)

\* One call holds the write lock of the map and waits for the write lock of
\* the list, which another call holds for reading.
C29_Witness ==
    \E t, u \in Task :
        /\ tasks[t].pc = "fin_read" /\ HoldsData(t)
        /\ tasks[u].pc = "ins_data" /\ HoldsMap(u)

\* C30: every index in the map points to a position of the list and no two
\* indices share one; the list only grows and an index once mapped keeps its
\* position; no step of a call that fails (unknown section, decompression
\* error) changes the map or the list.
C30_MapAndListOnlyGrow ==
    /\ [](\A s \in Sections : dcache.map[s] # 0 =>
            /\ dcache.map[s] \in 1..Len(dcache.list)
            /\ \A r \in Sections \ {s} : dcache.map[r] # dcache.map[s])
    /\ [][/\ Len(dcache'.list) >= Len(dcache.list)
          /\ SubSeq(dcache'.list, 1, Len(dcache.list)) = dcache.list
          /\ \A s \in Sections : dcache.map[s] # 0 => dcache'.map[s] = dcache.map[s]]_vars
    /\ [][\A t \in Task :
            (InData(t) /\ ~SectionOk(tasks[t].sec) /\ tasks'[t] # tasks[t]) =>
                (dcache'.map = dcache.map /\ dcache'.list = dcache.list)]_vars

\* Both sections that can be read are in the map, at two positions of the
\* list, and a call for the third has failed.
C30_Witness ==
    /\ Len(dcache.list) = 2
    /\ dcache.map[1] # 0 /\ dcache.map[2] # 0
    /\ 3 \in seen.errs

-----------------------------------------------------------------------------
(* Claims about frames, socket path and discovery *)

\* C11: a frame that was sent is the little-endian u16 length of the payload
\* followed by exactly the payload; a payload of 65535 bytes is sent, and a
\* payload of 65536 bytes or more fails with TooLong and nothing is written.
C11_FrameLengthCapped ==
    calc.op = "frame" =>
        /\ calc.pc \in {"sent", "received"} =>
              /\ calc.n <= U16Max
              /\ ReadU16Le(calc.wire[1]) = calc.n
              /\ calc.wire[2] = Payload(calc.n, calc.tag)
        /\ calc.n <= U16Max => calc.pc # "failed"
        /\ (calc.n > U16Max /\ calc.pc # "encode") =>
              (calc.pc = "failed" /\ calc.err = "TooLong" /\ calc.wire = <<>>)
        /\ calc.pc = "received" => calc.got = Payload(calc.n, calc.tag)

\* A payload of 65535 bytes has been sent by the client and read by the server.
C11_Witness ==
    /\ calc.op = "frame" /\ calc.n = U16Max
    /\ calc.pc = "received" /\ calc.got = Payload(U16Max, calc.tag)

\* C12: the Start the server decodes from the frame of a client is the value
\* the client encoded.
C12_RoundTrip ==
    \A c \in Conn :
        (peers[c].kind = "call" /\ peers[c].sent # <<>>) =>
            DecodeStart(peers[c].sent[1].payload) = [ok |-> TRUE, cmd |-> peers[c].cmd]

\* C13: the file name listen chooses is H(cwd)-H(target), so two runs with the
\* same working directory and target choose the same name.
C13_SocketPathIsPure ==
    calc.op = "listen" =>
        /\ \A i \in 1..Len(calc.names) :
              calc.names[i] = <<hashpath(calc.cwd), hashpath(calc.target)>>
        /\ Len(calc.names) = 2 => calc.names[1] = calc.names[2]

\* The sockets of a listing, in the order of the listing.
Sockets(dir) == SelectSeq(dir, LAMBDA e : e.kind = "socket")

\* C14: with FI_SESSION set the client takes that path and reads no directory;
\* otherwise it takes the first socket whose name begins with H(cwd), else the
\* first socket, and fails when the directory holds no socket.
C14_DiscoveryPrefersOwnSession ==
    (calc.op = "call" /\ calc.pc \in {"connect", "failed"}) =>
        IF calc.env # NoPath
        THEN calc.pc = "connect" /\ calc.found = calc.env /\ ~calc.enumerated
        ELSE (calc.dirOk /\ \A i \in 1..Len(calc.dir) : calc.dir[i].kind # "error") =>
                LET socks == Sockets(calc.dir)
                    mine == SelectSeq(socks,
                                LAMBDA e : BeginsWith(e.name, hashpath(calc.cwd)))
                IN  /\ socks = <<>> <=> calc.pc = "failed"
                    /\ socks # <<>> =>
                          calc.found = IF mine # <<>> THEN mine[1].name ELSE socks[1].name

-----------------------------------------------------------------------------
(* Claims about the queries *)

C16_HexRoundTrip ==
    (calc.op = "show" /\ calc.pc # "exec" /\ calc.address.hex) =>
        /\ calc.x # NoU64 => (calc.parsed.ok /\ calc.parsed.val = calc.x)
        /\ Len(calc.address.digits) > 16 => ~calc.parsed.ok

\* C17: where a disassembler was built, on the callsite path or the show
\* path, it was built for x86-64, AArch64, RISC-V-64, Wasm-32 and Wasm-64 and
\* failed with UnsupportedArch for every other architecture.
C17_FiveArchitectures ==
    (calc.op \in {"search", "show"} /\ calc.disasm # "none") =>
        calc.disasm = IF calc.arch \in {"X86_64", "Aarch64", "Riscv64", "Wasm32", "Wasm64"}
                      THEN "ok" ELSE "UnsupportedArch"

\* C18: in section mode the range starts at the largest multiple of the
\* alignment (requested, else the section's) not above the address, is
\* min(requested length or 256, section length - offset) long, and lies in
\* the section.
C18_SectionRangeAligned ==
    (calc.op = "show" /\ calc.no_symbol /\ calc.pc \in {"done", "panic"}) =>
        LET addr == U64ToNat(calc.parsed.val)
            sec == FindSection(addr)[1]
            al == IF calc.align = NoAddr THEN sec.align ELSE calc.align
            start == (addr \div al) * al
            want == IF calc.length = NoAddr THEN 256 ELSE calc.length
            rest == sec.address + sec.size - start
        IN  /\ calc.pc = "done"
            /\ calc.range.start = start
            /\ calc.range.len = IF want < rest THEN want ELSE rest
            /\ sec.address <= calc.range.start
            /\ calc.range.start + calc.range.len <= sec.address + sec.size

\* C19: in a callsite search a symbol of the section is reported exactly when
\* one of its instructions, wherever it is in the body, is a call or jump
\* whose target the resolver maps to the address searched for.
C19_CallerIffSomeInstruction ==
    (calc.op = "search" /\ calc.route = "by_call" /\ calc.pc = "done") =>
        \A s \in Syms :
            s \in calc.output <=>
                /\ InSection(s)
                /\ \E k \in 1..Len(calc.body[s]) :
                      /\ calc.body[s][k].group = "call"
                      /\ QuerySymbolByAddr(calc.body[s][k].target) = Obj.a

\* C20: on Mach-O the size of symbol i is the smallest greater address of a
\* symbol of its section minus its address, also with several symbols at its
\* address, and the end of its section minus its address when there is none.
C20_MachOSizeToNextSymbol ==
    (calc.op = "symsize" /\ calc.format = "MachO" /\ calc.pc = "done") =>
        LET addr == calc.list[calc.i]
            sec == SectionOf(addr)
            greater == { calc.list[j] : j \in { k \in 1..Len(calc.list) :
                            calc.list[k] > addr /\ SectionOf(calc.list[k]) = sec } }
        IN  calc.size =
                IF greater = {} THEN sec.address + sec.size - addr
                ELSE (CHOOSE g \in greater : \A h \in greater : g <= h) - addr


\* C21: the size of a symbol that lies in a section is not negative and the
\* symbol ends inside its section: address + size <= section end, so the
\* slice of the section data taken for it is within the data.
C21_SizeWithinSection ==
    (calc.op = "symsize" /\ calc.pc = "done") =>
        LET addr == calc.list[calc.i]
            sec == SectionOf(addr)
        IN  /\ calc.size >= 0
            /\ addr + calc.size <= sec.address + sec.size

\* C25: with neither --sort-size nor --sort-name a callsite search prints
\* the callers in ascending order of symbol index, and the list depends on
\* the object and the address alone, not on the order the workers ran in.
C25_CallersInIndexOrder ==
    (calc.op = "search" /\ calc.route = "by_call" /\ calc.pc = "done"
        /\ ~calc.sort_size /\ ~calc.sort_name) =>
        LET found == { s \in Syms :
                         /\ InSection(s)
                         /\ ScanInsts(DisassemblerNew(calc.arch), calc.body[s], Obj.a)
                                = "found" }
        IN  /\ { calc.printed[k].idx : k \in 1..Len(calc.printed) } = found
            /\ Len(calc.printed) = Cardinality(found)
            /\ \A k \in 1..(Len(calc.printed) - 1) :
                   calc.printed[k].idx < calc.printed[k + 1].idx

\* Two callers, collected in the order of symlist (2 before 1), are printed
\* 1 before 2.
C25_Witness ==
    /\ calc.op = "search" /\ calc.route = "by_call" /\ calc.pc = "done"
    /\ ~calc.sort_size /\ ~calc.sort_name
    /\ calc.output = {1, 2}
    /\ Len(calc.printed) = 2
    /\ calc.printed[1].idx = 1 /\ calc.printed[2].idx = 2

\* C27: a show of an address in a section without bytes (UninitializedData,
\* UninitializedTls) treats the data as empty and ends without error or
\* panic with no data shown, through a symbol and also with --no-symbol.
C27_UninitializedShownEmpty ==
    (calc.op = "show" /\ calc.pc \notin {"exec", "by_symbol", "by_section"}
        /\ calc.parsed.ok /\ InNat(calc.parsed.val)
        /\ FindSection(U64ToNat(calc.parsed.val)) # <<>>
        /\ FindSection(U64ToNat(calc.parsed.val))[1].kind
              \in {"UninitializedData", "UninitializedTls"}) =>
        /\ calc.pc = "done"
        /\ calc.shown = 0

-----------------------------------------------------------------------------
(* Claims about the resolver, the operands and the output *)

\* C22: the resolver returns the symbol of the map at A when A is a key;
\* else, when A lies in the GOT section (.got, __got on Mach-O) and the
\* relocation at A or the next above it is applied in [A, A+8), the symbol a
\* Symbol target names with its own address, or the symbol of the map at the
\* addend of an Absolute target; in every other case nothing.
C22_ResolverMatches ==
    (calc.op = "resolve" /\ calc.pc = "done") =>
        LET A == calc.addr
            rel == calc.obj.dyn_rela
            keys == { s \in Addr2Sym : s.address = A }
            inGot == /\ calc.obj.got
                     /\ GotSection.address <= A
                     /\ A < GotSection.address + GotSection.size
            above == { i \in 1..Len(rel) : rel[i].addr >= A }
            next == CHOOSE i \in above : \A j \in above : rel[i].addr <= rel[j].addr
            atAddend == { s \in Addr2Sym : s.address = rel[next].addend }
            want ==
                IF keys # {} THEN CHOOSE s \in keys : TRUE
                ELSE IF ~inGot \/ above = {} THEN NoSym
                ELSE IF rel[next].addr >= A + 8 THEN NoSym
                ELSE IF rel[next].kind = "Symbol" /\ rel[next].symidx \in 1..Len(ObjSymbols)
                THEN ObjSymbols[rel[next].symidx]
                ELSE IF rel[next].kind = "Absolute" /\ atAddend # {}
                THEN CHOOSE s \in atAddend : TRUE
                ELSE NoSym
        IN  calc.result = want

\* On Mach-O an address of __got that is no key resolved through the next
\* relocation above it to the symbol a, whose own address is returned.
C22_Witness ==
    /\ calc.op = "resolve" /\ calc.pc = "done"
    /\ calc.obj.format = "MachO" /\ calc.obj.got
    /\ calc.addr = 1024
    /\ Len(calc.obj.dyn_rela) >= 1 /\ calc.obj.dyn_rela[1].addr = 1030
    /\ calc.result = [name |-> "a", address |-> 256]

\* C23: for a call or jump, the target is the immediate of an immediate first
\* operand, the address of the instruction plus the signed displacement of a
\* RIP-relative first operand on x86-64, and nothing otherwise; show's
\* extraction and the callsite extraction agree.
C23_OperandTarget ==
    (calc.op = "operand" /\ calc.pc = "done" /\ calc.inst.group \in {"call", "jump"}) =>
        LET want == IF calc.inst.op = "imm" /\ calc.inst.target >= 0
                    THEN calc.inst.target
                    ELSE IF calc.inst.op = "rip" /\ calc.arch = "X86_64"
                            /\ calc.inst.address + calc.inst.disp >= 0
                    THEN calc.inst.address + calc.inst.disp
                    ELSE NoAddr
        IN  /\ calc.callsite = [ok |-> TRUE, addr |-> want]
            /\ calc.shown = calc.callsite.addr

\* C24: with --only-duplicate a symbol of the result is printed exactly when
\* a symbol before it in the result has the same base name (the name up to
\* its first '.'), in the order of the result, and the sum printed with
\* --size is the sum of the sizes of the printed symbols.
C24_OnlyLaterDuplicates ==
    (calc.op = "symbols" /\ calc.only_duplicate /\ calc.pc = "done") =>
        LET out == calc.output
            Base(n) == LET dots == { k \in 1..Len(n) : n[k] = Dot } IN
                       IF dots = {} THEN n
                       ELSE SubSeq(n, 1, (CHOOSE k \in dots : \A l \in dots : k <= l) - 1)
            dupAt(i) == \E j \in 1..(i - 1) : Base(out[j].name) = Base(out[i].name)
            keep == { i \in 1..Len(out) : dupAt(i) }
            nth(k) == CHOOSE i \in keep : Cardinality({ j \in keep : j < i }) = k - 1
            total == SumSizes([k \in 1..Len(calc.printed) |-> calc.printed[k]])
        IN  /\ calc.printed = [k \in 1..Cardinality(keep) |-> out[nth(k)]]
            /\ calc.size => calc.sumline = total

\* Three matches a.1, b, a.1.2 in the order of the result: only a.1.2, the
\* second of base a, is printed and summed.
C24_Witness ==
    /\ calc.op = "symbols" /\ calc.only_duplicate /\ calc.size /\ calc.pc = "done"
    /\ Len(calc.output) = 3
    /\ calc.output[1].name = <<1, Dot, 1>>
    /\ calc.output[2].name = <<2>>
    /\ calc.output[3].name = <<1, Dot, 1, Dot, 2>>
    /\ Len(calc.printed) = 1
    /\ calc.printed[1].name = <<1, Dot, 1, Dot, 2>>
    /\ calc.sumline = calc.printed[1].size

\* C26: --dump writes the selected bytes in order, in chunks of at most 4096
\* bytes, and yields to the scheduler between every two consecutive chunks.
C26_DumpYieldsBetweenChunks ==
    (calc.op = "dump" /\ calc.pc = "done") =>
        LET writes == SelectSeq(calc.ev, LAMBDA e : e.t = "write") IN
        /\ \A k \in 1..Len(writes) :
              /\ writes[k].len <= 4096
              /\ writes[k].from = IF k = 1 THEN 0
                                  ELSE writes[k - 1].from + writes[k - 1].len
        /\ (IF writes = <<>> THEN 0
            ELSE writes[Len(writes)].from + writes[Len(writes)].len) = calc.n
        /\ \A k \in 1..(Len(calc.ev) - 1) :
              ~(calc.ev[k].t = "write" /\ calc.ev[k + 1].t = "write")

=============================================================================
